---- MODULE Spec2Model ----
(***************************************************************************)
(* simple-stream: framed message transport over a duplex byte channel.     *)
(*                                                                         *)
(* The module models the three frame codecs (frame/simple.rs,              *)
(* frame/checksum32.rs, frame/websocket.rs) as operators on byte sequences *)
(* and the stream engines Plain (plain.rs) and Secure (secure.rs) as a     *)
(* state machine over a receive buffer, a transmit buffer and a channel.   *)
(* Bytes are integers 0..255; Vec<u8> is a sequence of bytes.              *)
(***************************************************************************)
EXTENDS Integers, Sequences, FiniteSets, TLC

(***************************************************************************)
(* Bounds of the model.                                                    *)
(***************************************************************************)
\* longest payload the peer or the caller puts in a frame
MaxPayloadLen == 3
\* number of frames the peer sends on one connection
MaxFrames == 2
\* number of send calls the caller makes on one connection
MaxSends == 2

\* number of bytes that may follow a frame in a buffer handed to a decoder
MaxTrailing == 2

(***************************************************************************)
(* Program constants.                                                      *)
(***************************************************************************)
BUF_SIZE == 1024
START == 1
END == 23
FIN == 128
MASK_BIT == 128
FIN_CLEAR_MASK == 15
U16 == 65536

CONTINUATION == 0
TEXT == 1
BINARY == 2
CLOSE == 8
PING == 9
PONG == 10

(***************************************************************************)
(* Byte and sequence helpers.                                              *)
(***************************************************************************)
Min(a, b) == IF a < b THEN a ELSE b

RECURSIVE BitAnd(_, _)
BitAnd(a, b) ==
    IF a = 0 \/ b = 0 THEN 0
    ELSE (a % 2) * (b % 2) + 2 * BitAnd(a \div 2, b \div 2)

RECURSIVE BitOr(_, _)
BitOr(a, b) ==
    IF a = 0 THEN b
    ELSE IF b = 0 THEN a
    ELSE (IF a % 2 = 1 \/ b % 2 = 1 THEN 1 ELSE 0) + 2 * BitOr(a \div 2, b \div 2)

RECURSIVE BitXor(_, _)
BitXor(a, b) ==
    IF a = 0 THEN b
    ELSE IF b = 0 THEN a
    ELSE ((a + b) % 2) + 2 * BitXor(a \div 2, b \div 2)

\* bitflags from_bits: Some exactly when no bit outside the declared flags is set
FromBitsOk(all, b) == BitAnd(b, 255 - all) = 0

\* big-endian value of a byte sequence; a value of 2^31 or more, which no
\* buffer of the model is long enough to hold, is represented by 2^31 - 1
RECURSIVE BigEndian(_)
BigEndian(s) ==
    IF s = <<>> THEN 0
    ELSE LET high == BigEndian(SubSeq(s, 1, Len(s) - 1))
         IN  IF high >= 8388608 THEN 2147483647 ELSE high * 256 + s[Len(s)]

\* buf[from..to) of the source, 0-based and half open
Slice(buf, from, to) == SubSeq(buf, from + 1, to)

RECURSIVE SumRange(_, _, _)
SumRange(s, lo, hi) ==
    IF lo > hi THEN 0
    ELSE IF lo = hi THEN s[lo]
    ELSE LET mid == (lo + hi) \div 2
         IN  SumRange(s, lo, mid) + SumRange(s, mid + 1, hi)

SumBytes(s) == SumRange(s \o <<>>, 1, Len(s))

\* the payloads of the model, one for each length up to MaxPayloadLen: its
\* bytes alternate between the two guard values of the Simple codec, so that
\* payload bytes look like frame delimiters
PayloadOfLen(n) == [i \in 1..n |-> IF i % 2 = 1 THEN 23 ELSE 1]

Payloads == {PayloadOfLen(n) : n \in 0..MaxPayloadLen}

\* the bytes that follow the frame in a buffer handed to a decoder
Trailing == {[i \in 1..n |-> 1] : n \in 0..MaxTrailing}

\* payload lengths at the edges of the length classes of the codecs
BoundaryLens == {125, 126, U16 - 2, U16 - 1, U16}

\* a payload length of the 16-bit class of the WebSocket codec
ShortLongLen == 130

\* payload lengths of the masked frames handed to the decoder, on both sides
\* of the edge of the 7-bit length class
MaskedLens == {MaxPayloadLen, 125, 126, ShortLongLen}

\* values a byte is changed to when a frame is garbled on the way
GarbledBytes == {0, 1, 2, 3, 11, 22, 23, 24, 130, 255}

\* payload lengths on both sides of the edges of the length classes
MeasuredLens == (0..MaxPayloadLen) \cup (124..127) \cup ((U16 - 5)..(U16 + 1))

ProperPrefixes(s) == {SubSeq(s, 1, k) : k \in 0..(Len(s) - 1)}

IsPrefix(s, t) == Len(s) <= Len(t) /\ s = SubSeq(t, 1, Len(s))

(***************************************************************************)
(* Decode results: Option<Box<Frame>> together with the buffer as the call *)
(* leaves it; "Panic" is an abort inside the decoder.                      *)
(***************************************************************************)
NoFrame == [none |-> TRUE]
DecNone(buf) == [kind |-> "None", frame |-> NoFrame, buf |-> buf]
DecSome(f, buf) == [kind |-> "Some", frame |-> f, buf |-> buf]
DecPanic(buf) == [kind |-> "Panic", frame |-> NoFrame, buf |-> buf]

(***************************************************************************)
(* Simple codec: START(1) LEN(2,BE) PAYLOAD(LEN) END(1).                   *)
(***************************************************************************)
FrameGuardAll == BitOr(START, END)

SimpleFrameDefault ==
    [start_guard |-> START, payload_len |-> 0, payload |-> <<>>, end_guard |-> END]

SimpleFrameNew(buf) ==
    [start_guard |-> START, payload_len |-> Len(buf) % U16,
     payload |-> buf, end_guard |-> END]

SimplePayload(f) == f.payload

\* (self.payload_len + 4) as usize, the sum taken in u16 (wrapping build)
SimpleLenAsVec(f) == (f.payload_len + 4) % U16

\* the u16 sum of len_as_vec overflows: a build with overflow checks panics
\* there, in len_as_vec() and in to_bytes(), which calls it for the capacity
SimpleLenOverflows(f) == f.payload_len + 4 > U16 - 1

SimpleToBytes(f) ==
    <<f.start_guard, (f.payload_len \div 256) % 256, f.payload_len % 256>>
        \o f.payload \o <<f.end_guard>>

SimpleFromBytes(buf) ==
    IF Len(buf) < 5 THEN DecNone(buf)
    ELSE
      LET start_guard == IF FromBitsOk(FrameGuardAll, buf[1])
                         THEN buf[1] ELSE SimpleFrameDefault.start_guard
          payload_len == BitOr((buf[2] * 256) % U16, buf[3])
      IN  IF Len(buf) - 4 < payload_len THEN DecNone(buf)
          ELSE IF ~FromBitsOk(FrameGuardAll, buf[payload_len + 4]) THEN DecNone(buf)
          ELSE
            LET frame == [start_guard |-> start_guard,
                          payload_len |-> payload_len,
                          payload     |-> Slice(buf, 3, payload_len + 3),
                          end_guard   |-> buf[payload_len + 4]]
            IN  DecSome(frame, Slice(buf, SimpleLenAsVec(frame), Len(buf)))

(***************************************************************************)
(* Checksum32 codec: LEN(4,BE) PAYLOAD(LEN) CHECKSUM(4,BE).                *)
(***************************************************************************)
Checksum32FrameNew(buf) ==
    [payload_len |-> Len(buf), payload |-> buf, checksum |-> SumBytes(buf)]

Checksum32Payload(f) == f.payload

Checksum32LenAsVec(f) == f.payload_len + 8

\* a faulty encoder that writes the checksum with the low byte first
Checksum32ToBytes_LittleEndianSum(f) ==
    <<(f.payload_len \div 16777216) % 256, (f.payload_len \div 65536) % 256,
      (f.payload_len \div 256) % 256, f.payload_len % 256>>
        \o f.payload
        \o <<f.checksum % 256, (f.checksum \div 256) % 256,
             (f.checksum \div 65536) % 256, (f.checksum \div 16777216) % 256>>

Checksum32ToBytes(f) ==
    <<(f.payload_len \div 16777216) % 256, (f.payload_len \div 65536) % 256,
      (f.payload_len \div 256) % 256, f.payload_len % 256>>
        \o f.payload
        \o <<(f.checksum \div 16777216) % 256, (f.checksum \div 65536) % 256,
             (f.checksum \div 256) % 256, f.checksum % 256>>

\* a faulty decoder that does not compare the checksums
Checksum32FromBytes_NoVerify(buf) ==
    IF Len(buf) < 9 THEN DecNone(buf)
    ELSE
      LET payload_len == BigEndian(Slice(buf, 0, 4))
      IN  IF Len(buf) - 8 < payload_len THEN DecNone(buf)
          ELSE
            LET payload == Slice(buf, 4, payload_len + 4)
                frame == [payload_len |-> payload_len, payload |-> payload,
                          checksum |-> SumBytes(payload)]
            IN  DecSome(frame, Slice(buf, Checksum32LenAsVec(frame), Len(buf)))

\* a faulty decoder that leaves the buffer as it is when the checksums differ
Checksum32FromBytes_KeepsBuffer(buf) ==
    IF Len(buf) < 9 THEN DecNone(buf)
    ELSE
      LET payload_len == BigEndian(Slice(buf, 0, 4))
      IN  IF Len(buf) - 8 < payload_len THEN DecNone(buf)
          ELSE
            LET payload        == Slice(buf, 4, payload_len + 4)
                checksum       == SumBytes(payload)
                maybe_checksum == BigEndian(Slice(buf, payload_len + 4, payload_len + 8))
                frame == [payload_len |-> payload_len, payload |-> payload,
                          checksum |-> checksum]
            IN  IF maybe_checksum # checksum THEN DecNone(buf)
                ELSE DecSome(frame, Slice(buf, Checksum32LenAsVec(frame), Len(buf)))

Checksum32FromBytes(buf) ==
    IF Len(buf) < 9 THEN DecNone(buf)
    ELSE
      LET payload_len == BigEndian(Slice(buf, 0, 4))
      IN  IF Len(buf) - 8 < payload_len THEN DecNone(buf)
          ELSE
            LET payload        == Slice(buf, 4, payload_len + 4)
                checksum       == SumBytes(payload)
                maybe_checksum == BigEndian(Slice(buf, payload_len + 4, payload_len + 8))
                frame == [payload_len |-> payload_len, payload |-> payload,
                          checksum |-> checksum]
            IN  IF maybe_checksum # checksum THEN DecNone(<<>>)
                ELSE DecSome(frame, Slice(buf, Checksum32LenAsVec(frame), Len(buf)))

(***************************************************************************)
(* WebSocket codec: FIN+OPCODE(1) MASK+LEN7(1) [EXT-LEN] [KEY(4)] PAYLOAD. *)
(***************************************************************************)
OpCodeAll ==
    BitOr(CONTINUATION, BitOr(TEXT, BitOr(BINARY, BitOr(CLOSE, BitOr(PING, PONG)))))

OpCodeOf(op_type) ==
    CASE op_type = "Continuation" -> CONTINUATION
      [] op_type = "Text"         -> TEXT
      [] op_type = "Binary"       -> BINARY
      [] op_type = "Close"        -> CLOSE
      [] op_type = "Ping"         -> PING
      [] op_type = "Pong"         -> PONG

WebSocketFrameNew(buf, frame_type, op_type) ==
    [frame_type |-> frame_type, op_code |-> OpCodeOf(op_type), mask |-> FALSE,
     payload_len |-> Len(buf), masking_key |-> <<0, 0, 0, 0>>, data |-> buf]

\* a faulty unmasking that starts the key at its second byte
WebSocketPayloadUnmasked_KeyFromOne(f) ==
    [x \in 1..Len(f.data) |-> BitXor(f.data[x], f.masking_key[(x % 4) + 1])]

WebSocketPayloadUnmasked(f) ==
    [x \in 1..Len(f.data) |-> BitXor(f.data[x], f.masking_key[((x - 1) % 4) + 1])]

WebSocketPayload(f) == IF f.mask THEN WebSocketPayloadUnmasked(f) ELSE f.data

WebSocketLenAsVec(f) ==
    2 + (IF f.payload_len > 125 /\ f.payload_len < U16 - 1 THEN 2
         ELSE IF f.payload_len > U16 - 1 THEN 8 ELSE 0)
      + (IF f.mask THEN 4 ELSE 0)
      + f.payload_len

WebSocketToBytes(f) ==
    LET next_7_bits == IF f.payload_len <= 125 THEN f.payload_len % 256
                       ELSE IF f.payload_len <= U16 - 1 THEN 126 ELSE 127
        next_byte   == BitOr(IF f.mask THEN MASK_BIT ELSE 0, next_7_bits)
        ext == IF next_byte = 126
               THEN <<((f.payload_len % U16) \div 256) % 256, f.payload_len % 256>>
               ELSE IF next_byte = 127
               THEN <<0, 0, 0, 0,
                      (f.payload_len \div 16777216) % 256,
                      (f.payload_len \div 65536) % 256,
                      (f.payload_len \div 256) % 256, f.payload_len % 256>>
               ELSE <<>>
    IN  <<BitOr(FIN, f.op_code), next_byte>> \o ext
          \o (IF f.mask THEN f.masking_key ELSE <<>>) \o f.data

\* next_offset + payload_len exceeds usize for the 8 length bytes of buf: a
\* build with overflow checks panics at the sum, a wrapping build at the
\* slice buf[next_offset..] that ends before it begins
WebSocketLenOverflows(buf, next_offset) ==
    /\ \A i \in 3..9 : buf[i] = 255
    /\ buf[10] + next_offset > 255

WebSocketFromBytes(buf) ==
    IF Len(buf) < 5 THEN DecNone(buf)
    ELSE
      LET op_byte == BitAnd(buf[1], FIN_CLEAR_MASK)
      IN
      IF ~FromBitsOk(OpCodeAll, op_byte) THEN DecNone(buf)
      ELSE IF op_byte \notin {CONTINUATION, TEXT, BINARY, CLOSE, PING, PONG}
      THEN DecPanic(buf)
      ELSE
        LET frame_type == IF op_byte \in {CONTINUATION, TEXT, BINARY}
                          THEN "Data" ELSE "Control"
            mask == BitAnd(MASK_BIT, buf[2]) > 0
            len7 == BitAnd(127, buf[2])
        IN
        IF len7 = 127 /\ Len(buf) < 10 THEN DecNone(buf)
        ELSE
          LET payload_len == IF len7 <= 125 THEN len7
                             ELSE IF len7 = 126 THEN BigEndian(Slice(buf, 2, 4))
                             ELSE BigEndian(Slice(buf, 2, 10))
              hdr_offset  == IF len7 <= 125 THEN 2 ELSE IF len7 = 126 THEN 4 ELSE 10
          IN
          IF mask /\ Len(buf) <= hdr_offset + 4 THEN DecNone(buf)
          ELSE
            LET next_offset == IF mask THEN hdr_offset + 4 ELSE hdr_offset
                masking_key == IF mask THEN Slice(buf, hdr_offset, hdr_offset + 4)
                               ELSE <<0, 0, 0, 0>>
            IN
            IF len7 = 127 /\ WebSocketLenOverflows(buf, next_offset) THEN DecPanic(buf)
            ELSE IF Len(buf) < next_offset + payload_len THEN DecNone(buf)
            ELSE
              LET frame == [frame_type |-> frame_type, op_code |-> op_byte,
                            mask |-> mask, payload_len |-> payload_len,
                            masking_key |-> masking_key,
                            data |-> Slice(buf, next_offset, payload_len + next_offset)]
              IN  DecSome(frame, Slice(buf, WebSocketLenAsVec(frame), Len(buf)))

\* the masking key of the frames a client sends
MaskingKey == <<1, 2, 3, 4>>

\* a masked binary frame with n payload bytes as a client puts it on the wire
ClientFrameBytes(n) ==
    LET len7 == IF n <= 125 THEN n ELSE IF n < U16 THEN 126 ELSE 127
        ext  == IF len7 = 126 THEN <<n \div 256, n % 256>>
                ELSE IF len7 = 127
                THEN <<0, 0, 0, 0, (n \div 16777216) % 256, (n \div 65536) % 256,
                       (n \div 256) % 256, n % 256>>
                ELSE <<>>
    IN  <<BitOr(FIN, BINARY), BitOr(MASK_BIT, len7)>> \o ext \o MaskingKey
          \o PayloadOfLen(n)

(***************************************************************************)
(* The Frame / FrameBuilder traits, dispatched on the codec.               *)
(***************************************************************************)
Codecs == {"Simple", "Checksum32", "WebSocket"}

FrameNew(c, p) ==
    CASE c = "Simple"     -> SimpleFrameNew(p)
      [] c = "Checksum32" -> Checksum32FrameNew(p)
      [] c = "WebSocket"  -> WebSocketFrameNew(p, "Data", "Binary")

to_bytes(c, f) ==
    CASE c = "Simple"     -> SimpleToBytes(f)
      [] c = "Checksum32" -> Checksum32ToBytes(f)
      [] c = "WebSocket"  -> WebSocketToBytes(f)

payload(c, f) ==
    CASE c = "Simple"     -> SimplePayload(f)
      [] c = "Checksum32" -> Checksum32Payload(f)
      [] c = "WebSocket"  -> WebSocketPayload(f)

len_as_vec(c, f) ==
    CASE c = "Simple"     -> SimpleLenAsVec(f)
      [] c = "Checksum32" -> Checksum32LenAsVec(f)
      [] c = "WebSocket"  -> WebSocketLenAsVec(f)

from_bytes(c, buf) ==
    CASE c = "Simple"     -> SimpleFromBytes(buf)
      [] c = "Checksum32" -> Checksum32FromBytes(buf)
      [] c = "WebSocket"  -> WebSocketFromBytes(buf)

Encode(c, p) == to_bytes(c, FrameNew(c, p))

\* while let Some(frame) = FB::from_bytes(&mut buf) { ret_buf.push(frame) }
RECURSIVE DecodeAll(_, _)
DecodeAll(c, buf) ==
    LET dec == from_bytes(c, buf)
    IN  IF dec.kind = "Some"
        THEN LET more == DecodeAll(c, dec.buf)
             IN  [frames |-> <<dec.frame>> \o more.frames, buf |-> more.buf,
                  panic |-> more.panic]
        ELSE [frames |-> <<>>, buf |-> dec.buf, panic |-> dec.kind = "Panic"]

(***************************************************************************)
(* State.                                                                  *)
(***************************************************************************)
VARIABLES
    engine,      \* "Plain" or "Secure": the stream type wrapping the channel
    codec,       \* the FrameBuilder type parameter FB
    rx_buf,      \* receive buffer
    tx_buf,      \* transmit buffer
    pc,          \* "idle", or the call whose read loop is running
    chan,        \* outcome of the latest channel call
    spin,        \* flips on each trip round a read loop that received no byte
    result,      \* what the latest completed call returned
    rxAtCall,    \* length of rx_buf when the running / latest receive call began
    wire,        \* bytes sent by the peer and not yet read from the channel
    eof,         \* the peer has closed its side
    sentFrames,  \* payloads of the frames the peer sent, in order
    delivered,   \* frames returned to the caller by receive calls, in order
    queued,      \* payloads of the frames passed to send calls, in order
    accepted,    \* bytes the channel accepted from write calls, in order
    lastWrite,   \* the latest channel write: buffer before, bytes offered, count
    given,       \* the payload and the trailing bytes a decoder was handed
    sendFailed,  \* a send call has returned a fatal error
    measured,    \* the lengths a frame reported and produced
    sideBySide,  \* a Plain and a Secure stream run on the same channel results
    oldPlain,    \* a stream of the byte-by-byte kind (plain_old, nonblocking)
    cloned,      \* a clone of the stream, reading the same connection
    prefixed,    \* a message written by a length-prefixed stream
    shut         \* shutdown has been called on the stream

vars == <<engine, codec, rx_buf, tx_buf, pc, chan, spin, result, rxAtCall, wire,
          eof, sentFrames, delivered, queued, accepted, lastWrite, given,
          sendFailed, measured, shut, sideBySide, oldPlain, cloned, prefixed>>

Engines == {"Plain", "Secure"}

\* err is the io::ErrorKind of an error returned, text its message
NoResult == [op |-> "none", kind |-> "none", frames |-> <<>>, err |-> "none", text |-> ""]
Ok(op, frames) == [op |-> op, kind |-> "Ok", frames |-> frames, err |-> "none", text |-> ""]
WouldBlock(op) ==
    [op |-> op, kind |-> "WouldBlock", frames |-> <<>>, err |-> "WouldBlock",
     text |-> "WouldBlock"]
Err(op, e) == [op |-> op, kind |-> "Err", frames |-> <<>>, err |-> e, text |-> e]
Aborted(op) == [op |-> op, kind |-> "Panic", frames |-> <<>>, err |-> "panic", text |-> ""]

NoWrite == [before |-> <<>>, offered |-> <<>>, wrote |-> -1]

\* at, to: the position of the byte changed on the way and its new value
\* short: the bytes are fewer than the frame they begin, and buf holds them
\* boundary, masked: the payload is PayloadOfLen(boundary), not kept in payload
NotGiven ==
    [payload |-> <<>>, trailing |-> <<>>, loaded |-> FALSE, at |-> 0, to |-> 0,
     short |-> FALSE, buf |-> <<>>, boundary |-> 0, masked |-> FALSE]

NotMeasured == [taken |-> FALSE, payload_len |-> 0, mask |-> FALSE, len_as_vec |-> 0,
                to_bytes |-> 0, head |-> <<>>, last |-> 0, panic |-> FALSE,
                payload |-> <<>>]

\* the two streams before any call: empty buffers, nothing in flight
NotPaired ==
    [wire |-> <<>>, arrived |-> 0, sends |-> 0, last |-> "none",
     plain |-> [rx_buf |-> <<>>, tx_buf |-> <<>>, result |-> NoResult],
     secure |-> [rx_buf |-> <<>>, tx_buf |-> <<>>, result |-> NoResult]]

\* a byte-by-byte stream after new(), with the Plain stream that is run
\* beside it. state, buffer, scratch, tx_queue and rx_queue are the fields of
\* the struct; wire holds the bytes in flight to both streams, arrived the
\* payloads the peer sent, emitted the payloads the state machine completed,
\* path the states it went through, peak the most bytes buffer held, passed
\* the messages given to send and accepted the bytes the channel took
NotStarted ==
    [state |-> "Start", buffer |-> <<>>, scratch |-> <<>>, tx_queue |-> <<>>,
     rx_queue |-> <<>>, result |-> NoResult, returned |-> <<>>,
     wire |-> <<>>, arrived |-> <<>>, emitted |-> <<>>, path |-> <<"Start">>,
     peak |-> 0, passed |-> <<>>, accepted |-> <<>>, failed |-> FALSE,
     plain |-> [rx_buf |-> <<>>, result |-> NoResult]]

\* no clone has been made
NotCloned == [made |-> FALSE, rx_buf |-> <<>>, tx_buf |-> <<>>, delivered |-> <<>>]

\* nothing has been written by a length-prefixed stream
NotWritten == [written |-> FALSE, read |-> FALSE, stream |-> "none", len |-> 0,
               head |-> <<>>, payload_len |-> 0]

Init ==
    /\ engine \in Engines
    /\ codec \in Codecs
    /\ rx_buf = <<>>
    /\ tx_buf = <<>>
    /\ pc = "idle"
    /\ chan = "none"
    /\ spin = FALSE
    /\ result = NoResult
    /\ rxAtCall = 0
    /\ wire = <<>>
    /\ eof = FALSE
    /\ sentFrames = <<>>
    /\ delivered = <<>>
    /\ queued = <<>>
    /\ accepted = <<>>
    /\ lastWrite = NoWrite
    /\ given = NotGiven
    /\ sendFailed = FALSE
    /\ measured = NotMeasured
    /\ shut = FALSE
    /\ sideBySide = NotPaired
    /\ oldPlain = NotStarted
    /\ cloned = NotCloned
    /\ prefixed = NotWritten

(***************************************************************************)
(* The peer.                                                               *)
(***************************************************************************)
PeerSend(p) ==
    /\ ~eof
    /\ Len(sentFrames) < MaxFrames
    /\ wire' = wire \o Encode(codec, p)
    /\ sentFrames' = Append(sentFrames, p)
    /\ UNCHANGED <<engine, oldPlain, cloned, prefixed, sideBySide, shut, codec, rx_buf, tx_buf, pc, chan, spin, result, rxAtCall,
                   eof, delivered, queued, accepted, lastWrite, given, sendFailed,
                   measured>>

\* the peer sends one frame whose payload length is at the edge of a length
\* class of the WebSocket codec
PeerSendBoundary(n) ==
    /\ codec = "WebSocket"
    /\ sentFrames = <<>>
    /\ PeerSend(PayloadOfLen(n))

\* the first frame of the connection arrives with its start guard (i = 1) or
\* its end guard (i = its length) changed to v
PeerSendGarbled(p, i, v) ==
    LET bytes == Encode(codec, p)
    IN  /\ codec = "Simple"
        /\ ~eof
        /\ ~given.loaded
        /\ sentFrames = <<>>
        /\ i \in {1, Len(bytes)}
        /\ v \in GarbledBytes
        /\ v # bytes[i]
        /\ wire' = wire \o [bytes EXCEPT ![i] = v]
        /\ given' = [payload |-> p, trailing |-> <<>>, loaded |-> TRUE, at |-> i, to |-> v,
                     short |-> FALSE, buf |-> <<>>, boundary |-> 0, masked |-> FALSE]
        /\ UNCHANGED <<engine, oldPlain, cloned, prefixed, sideBySide, shut, codec, rx_buf, tx_buf, pc, chan, spin, result, rxAtCall,
                       eof, sentFrames, delivered, queued, accepted, lastWrite, sendFailed,
                       measured>>

\* the first frame of the connection arrives with one byte of its payload or
\* of its checksum changed to v, and the bytes t right behind it
PeerSendBadSum(p, i, v, t) ==
    LET bytes == Encode(codec, p)
    IN  /\ codec = "Checksum32"
        /\ ~eof
        /\ ~given.loaded
        /\ sentFrames = <<>>
        /\ p # <<>>
        /\ i \in 5..Len(bytes)
        /\ v \in GarbledBytes
        /\ v # bytes[i]
        /\ wire' = wire \o [bytes EXCEPT ![i] = v] \o t
        /\ given' = [payload |-> p, trailing |-> t, loaded |-> TRUE, at |-> i, to |-> v,
                     short |-> FALSE, buf |-> <<>>, boundary |-> 0, masked |-> FALSE]
        /\ UNCHANGED <<engine, oldPlain, cloned, prefixed, sideBySide, shut, codec, rx_buf, tx_buf, pc, chan, spin, result, rxAtCall,
                       eof, sentFrames, delivered, queued, accepted, lastWrite, sendFailed,
                       measured>>

PeerClose ==
    /\ ~eof
    /\ eof' = TRUE
    /\ UNCHANGED <<engine, oldPlain, cloned, prefixed, sideBySide, shut, codec, rx_buf, tx_buf, pc, chan, spin, result, rxAtCall,
                   wire, sentFrames, delivered, queued, accepted, lastWrite, given, sendFailed,
                   measured>>

(***************************************************************************)
(* Channel reads. A read hands over a non-empty prefix of the bytes in     *)
(* flight (at most BUF_SIZE of them), or reports that none has arrived     *)
(* yet, or that the peer is gone, or fails.                                *)
(***************************************************************************)
\* fatal outcomes of a channel read, as the channel reports them
ReadFailures ==
    IF engine = "Plain" THEN {"ConnectionReset"}
    ELSE {"WantWrite", "Stream", "Ssl", "WantX509Lookup"}

\* the io::Error a receive call makes of a failed channel read
RecvError(e) ==
    CASE e = "ConnectionReset" -> "ConnectionReset"
      [] e = "Stream"          -> "ConnectionReset"
      [] e = "ZeroReturn"      -> "UnexpectedEof"
      [] e = "UnexpectedEof"   -> "UnexpectedEof"
      [] e = "WantX509Lookup"  -> "Other"
      [] e = "Ssl"             -> "Other"
      [] OTHER                 -> "Other"

\* the message of the io::Error a receive call makes of a failed read; an
\* io::Error of the channel is passed on as it is
RecvErrorText(e) ==
    CASE e = "ZeroReturn"     -> "UnexpectedEof"
      [] e = "WantX509Lookup" -> "WantX509Lookup"
      [] e = "Ssl"            -> "The following Ssl Error codes were thrown"
      [] e = "WantWrite"      -> "Unknown error during ssl_read"
      [] e = "Stream"         -> "ConnectionReset"
      [] OTHER                -> e

AtEof == eof /\ wire = <<>>

\* the tail of nb_recv: decode every frame, then Ok(frames) or WouldBlock
NbRecvReturn(buf) ==
    LET all == DecodeAll(codec, buf)
    IN  /\ rx_buf' = all.buf
        /\ delivered' = delivered \o all.frames
        /\ result' = IF all.panic THEN Aborted("nb_recv")
                     ELSE IF Len(all.frames) > 0 THEN Ok("nb_recv", all.frames)
                     ELSE WouldBlock("nb_recv")
        /\ pc' = "idle"

NbRecvCall ==
    /\ pc = "idle"
    /\ pc' = "nb_recv"
    /\ rxAtCall' = Len(rx_buf)
    /\ chan' = "none"
    /\ spin' = FALSE
    /\ UNCHANGED <<engine, oldPlain, cloned, prefixed, sideBySide, shut, codec, rx_buf, tx_buf, result, wire, eof, sentFrames,
                   delivered, queued, accepted, lastWrite, given, sendFailed,
                   measured>>

\* a faulty read loop that decodes as it goes: the frames complete after a
\* read are taken out of the buffer before the next read
NbRecvData_DecodesAsItGoes(k) ==
    /\ pc = "nb_recv"
    /\ k \in 1..Min(Len(wire), BUF_SIZE)
    /\ rx_buf' = DecodeAll(codec, rx_buf \o SubSeq(wire, 1, k)).buf
    /\ delivered' = delivered \o DecodeAll(codec, rx_buf \o SubSeq(wire, 1, k)).frames
    /\ wire' = SubSeq(wire, k + 1, Len(wire))
    /\ chan' = "data"
    /\ UNCHANGED <<engine, oldPlain, cloned, prefixed, sideBySide, shut, codec, tx_buf, pc, spin, result, rxAtCall, eof,
                   sentFrames, queued, accepted, lastWrite, given, sendFailed,
                   measured>>

\* the read returns Ok(k), k > 0: the bytes are appended and the loop goes on
NbRecvData(k) ==
    /\ pc = "nb_recv"
    /\ k \in 1..Min(Len(wire), BUF_SIZE)
    /\ rx_buf' = rx_buf \o SubSeq(wire, 1, k)
    /\ wire' = SubSeq(wire, k + 1, Len(wire))
    /\ chan' = "data"
    /\ UNCHANGED <<engine, oldPlain, cloned, prefixed, sideBySide, shut, codec, tx_buf, pc, spin, result, rxAtCall, eof,
                   sentFrames, delivered, queued, accepted, lastWrite, given, sendFailed,
                   measured>>

\* the read returns Ok(0), as a Read does at end of stream: nothing is
\* appended and the loop goes on (ssl_read reports ZeroReturn instead)
NbRecvZero ==
    /\ pc = "nb_recv"
    /\ engine = "Plain"
    /\ AtEof
    /\ rx_buf' = rx_buf \o <<>>
    /\ chan' = "zero"
    /\ spin' = ~spin
    /\ UNCHANGED <<engine, oldPlain, cloned, prefixed, sideBySide, shut, codec, tx_buf, pc, result, rxAtCall, wire, eof,
                   sentFrames, delivered, queued, accepted, lastWrite, given, sendFailed,
                   measured>>

\* the read reports WouldBlock (Plain) or WantRead (Secure): the loop breaks
NbRecvWouldBlock ==
    /\ pc = "nb_recv"
    /\ ~AtEof
    /\ chan' = "wouldblock"
    /\ NbRecvReturn(rx_buf)
    /\ UNCHANGED <<engine, oldPlain, cloned, prefixed, sideBySide, shut, codec, tx_buf, spin, rxAtCall, wire, eof, sentFrames,
                   queued, accepted, lastWrite, given, sendFailed, measured>>

\* a whole nb_recv call during which every byte in flight arrives: the reads
\* hand the bytes over chunk by chunk, then the channel reports would-block
NbRecvDrained ==
    /\ pc = "idle"
    /\ wire # <<>>
    /\ rxAtCall' = Len(rx_buf)
    /\ spin' = FALSE
    /\ chan' = "wouldblock"
    /\ wire' = <<>>
    /\ NbRecvReturn(rx_buf \o wire)
    /\ UNCHANGED <<engine, oldPlain, cloned, prefixed, sideBySide, shut, codec, tx_buf, eof, sentFrames, queued, accepted,
                   lastWrite, given, sendFailed, measured>>

\* the read fails: the error is returned at once
NbRecvError(e) ==
    /\ pc = "nb_recv"
    /\ \/ e \in ReadFailures
       \/ AtEof /\ e = (IF engine = "Plain" THEN "UnexpectedEof" ELSE "ZeroReturn")
    /\ chan' = e
    /\ result' = [Err("nb_recv", RecvError(e)) EXCEPT !.text = RecvErrorText(e)]
    /\ pc' = "idle"
    /\ UNCHANGED <<engine, oldPlain, cloned, prefixed, sideBySide, shut, codec, rx_buf, tx_buf, spin, rxAtCall, wire, eof,
                   sentFrames, delivered, queued, accepted, lastWrite, given, sendFailed,
                   measured>>

\* one decode attempt of b_recv: the frame is returned, or the loop (re)starts
BRecvDecode(buf) ==
    LET dec == from_bytes(codec, buf)
    IN  /\ rx_buf' = dec.buf
        /\ IF dec.kind = "Some"
           THEN /\ result' = Ok("b_recv", <<dec.frame>>)
                /\ delivered' = Append(delivered, dec.frame)
                /\ pc' = "idle"
           ELSE IF dec.kind = "Panic"
           THEN /\ result' = Aborted("b_recv")
                /\ pc' = "idle"
                /\ UNCHANGED delivered
           ELSE /\ pc' = "b_recv"
                /\ UNCHANGED <<result, delivered>>

BRecvCall ==
    /\ pc = "idle"
    /\ rxAtCall' = Len(rx_buf)
    /\ chan' = "none"
    /\ spin' = FALSE
    /\ BRecvDecode(rx_buf)
    /\ UNCHANGED <<engine, oldPlain, cloned, prefixed, sideBySide, shut, codec, tx_buf, wire, eof, sentFrames, queued, accepted,
                   lastWrite, given, sendFailed, measured>>

BRecvData(k) ==
    /\ pc = "b_recv"
    /\ k \in 1..Min(Len(wire), BUF_SIZE)
    /\ wire' = SubSeq(wire, k + 1, Len(wire))
    /\ chan' = "data"
    /\ BRecvDecode(rx_buf \o SubSeq(wire, 1, k))
    /\ UNCHANGED <<engine, oldPlain, cloned, prefixed, sideBySide, shut, codec, tx_buf, spin, rxAtCall, eof, sentFrames, queued,
                   accepted, lastWrite, given, sendFailed, measured>>

BRecvZero ==
    /\ pc = "b_recv"
    /\ AtEof
    /\ chan' = "zero"
    /\ spin' = ~spin
    /\ BRecvDecode(rx_buf \o <<>>)
    /\ UNCHANGED <<engine, oldPlain, cloned, prefixed, sideBySide, shut, codec, tx_buf, rxAtCall, wire, eof, sentFrames, queued,
                   accepted, lastWrite, given, sendFailed, measured>>

BRecvError(e) ==
    /\ pc = "b_recv"
    /\ \/ e = "ConnectionReset"
       \/ AtEof /\ e = "UnexpectedEof"
    /\ chan' = e
    /\ result' = Err("b_recv", e)
    /\ pc' = "idle"
    /\ UNCHANGED <<engine, oldPlain, cloned, prefixed, sideBySide, shut, codec, rx_buf, tx_buf, spin, rxAtCall, wire, eof,
                   sentFrames, delivered, queued, accepted, lastWrite, given, sendFailed,
                   measured>>

(***************************************************************************)
(* Send calls. Each makes one channel write; the channel accepts a prefix  *)
(* of the bytes offered, or reports that it cannot take any now, or fails. *)
(***************************************************************************)
WriteFailures ==
    IF engine = "Plain" THEN {"ConnectionReset"}
    ELSE {"WantRead", "Stream", "Ssl", "WantX509Lookup"}

SendError(e) ==
    CASE e = "ConnectionReset" -> "ConnectionReset"
      [] e = "Stream"          -> "ConnectionReset"
      [] OTHER                 -> "Other"

\* a faulty nb_send that keeps the whole buffer after a short write, so the
\* bytes already accepted would be sent again
NbSendAfterWrite_KeepsWholeBuffer(out_buf, n) ==
    IF n = 0 THEN [tx_buf |-> <<>>, result |-> Err("nb_send", "Other")]
    ELSE IF n < Len(out_buf)
    THEN [tx_buf |-> out_buf, result |-> WouldBlock("nb_send")]
    ELSE [tx_buf |-> <<>>, result |-> Ok("nb_send", <<>>)]

\* a faulty nb_send without the zero check: a zero-byte write is treated as
\* a short write
NbSendAfterWrite_ZeroIsShortWrite(out_buf, n) ==
    IF n < Len(out_buf)
    THEN [tx_buf |-> Slice(out_buf, n, Len(out_buf)), result |-> WouldBlock("nb_send")]
    ELSE [tx_buf |-> <<>>, result |-> Ok("nb_send", <<>>)]

\* the message of the io::Error nb_send makes of a failed write
SendErrorText(e) ==
    CASE e = "WantX509Lookup" -> "WantX509Lookup"
      [] e = "Ssl"            -> "The following Ssl Error codes were thrown"
      [] e = "WantRead"       -> "Unknown error during ssl_write"
      [] e = "Stream"         -> "ConnectionReset"
      [] OTHER                -> e

\* what nb_send leaves in tx_buf and returns once the write accepted n bytes
NbSendAfterWrite(out_buf, n) ==
    IF n = 0 THEN [tx_buf |-> <<>>, result |-> Err("nb_send", "Other")]
    ELSE IF n < Len(out_buf)
    THEN [tx_buf |-> Slice(out_buf, n, Len(out_buf)), result |-> WouldBlock("nb_send")]
    ELSE [tx_buf |-> <<>>, result |-> Ok("nb_send", <<>>)]

\* what nb_send leaves in tx_buf once the write failed: out_buf, which holds
\* the bytes swapped out of tx_buf, is dropped on return
NbSendAfterFailure(out_buf) == <<>>

\* the bytes nb_send offers to the channel
NbSendOffer(buf, frame_bytes) == buf \o frame_bytes

NbSendWrite(p, n) ==
    LET out_buf == NbSendOffer(tx_buf, Encode(codec, p))
        after   == NbSendAfterWrite(out_buf, n)
    IN  /\ pc = "idle"
        /\ Len(queued) < MaxSends
        /\ n \in 0..Len(out_buf)
        /\ queued' = Append(queued, p)
        /\ lastWrite' = [before |-> tx_buf, offered |-> out_buf, wrote |-> n]
        /\ accepted' = accepted \o SubSeq(out_buf, 1, n)
        /\ tx_buf' = after.tx_buf
        /\ result' = after.result
        /\ sendFailed' = (sendFailed \/ after.result.kind = "Err")
        /\ chan' = "wrote"
        /\ UNCHANGED <<engine, oldPlain, cloned, prefixed, sideBySide, shut, codec, rx_buf, pc, spin, rxAtCall, wire, eof,
                       sentFrames, delivered, given, measured>>

\* the write reports WouldBlock (Plain) or WantWrite (Secure)
NbSendWouldBlock(p) ==
    LET out_buf == NbSendOffer(tx_buf, Encode(codec, p))
    IN  /\ pc = "idle"
        /\ Len(queued) < MaxSends
        /\ queued' = Append(queued, p)
        /\ lastWrite' = [before |-> tx_buf, offered |-> out_buf, wrote |-> -1]
        /\ tx_buf' = NbSendAfterFailure(out_buf)
        /\ result' = WouldBlock("nb_send")
        /\ chan' = "wouldblock"
        /\ UNCHANGED <<engine, oldPlain, cloned, prefixed, sideBySide, shut, codec, rx_buf, pc, spin, rxAtCall, wire, eof,
                       sentFrames, delivered, accepted, given, sendFailed,
                       measured>>

NbSendError(p, e) ==
    LET out_buf == NbSendOffer(tx_buf, Encode(codec, p))
    IN  /\ pc = "idle"
        /\ Len(queued) < MaxSends
        /\ e \in WriteFailures
        /\ queued' = Append(queued, p)
        /\ lastWrite' = [before |-> tx_buf, offered |-> out_buf, wrote |-> -1]
        /\ tx_buf' = NbSendAfterFailure(out_buf)
        /\ result' = [Err("nb_send", SendError(e)) EXCEPT !.text = SendErrorText(e)]
        /\ sendFailed' = TRUE
        /\ chan' = e
        /\ UNCHANGED <<engine, oldPlain, cloned, prefixed, sideBySide, shut, codec, rx_buf, pc, spin, rxAtCall, wire, eof,
                       sentFrames, delivered, accepted, given, measured>>

\* b_send: one write of the frame's encoding; the count the write returns is
\* only logged
BSendWrite(p, n) ==
    LET out_buf == Encode(codec, p)
    IN  /\ pc = "idle"
        /\ Len(queued) < MaxSends
        /\ n \in 0..Len(out_buf)
        /\ queued' = Append(queued, p)
        /\ lastWrite' = [before |-> <<>>, offered |-> out_buf, wrote |-> n]
        /\ accepted' = accepted \o SubSeq(out_buf, 1, n)
        /\ result' = Ok("b_send", <<>>)
        /\ UNCHANGED <<engine, oldPlain, cloned, prefixed, sideBySide, shut, codec, rx_buf, tx_buf, pc, chan, spin, rxAtCall, wire,
                       eof, sentFrames, delivered, given, sendFailed, measured>>

\* the write of b_send fails: the error is returned
BSendError(p, e) ==
    LET out_buf == Encode(codec, p)
    IN  /\ pc = "idle"
        /\ Len(queued) < MaxSends
        /\ e \in {"ConnectionReset", "WriteZero"}
        /\ queued' = Append(queued, p)
        /\ lastWrite' = [before |-> <<>>, offered |-> out_buf, wrote |-> -1]
        /\ result' = Err("b_send", e)
        /\ sendFailed' = TRUE
        /\ UNCHANGED <<engine, oldPlain, cloned, prefixed, sideBySide, shut, codec, rx_buf, tx_buf, pc, chan, spin, rxAtCall, wire,
                       eof, sentFrames, delivered, accepted, given, measured>>

(***************************************************************************)
(* Shutdown. Plain::shutdown calls libc::shutdown(fd, SHUT_RDWR): from then *)
(* on the channel's reads never wait: they reach end of stream, after the  *)
(* bytes that had arrived if the system still hands them over (readable),  *)
(* and its writes fail. The stream's buffers are not touched.              *)
(***************************************************************************)
Shutdown(readable) ==
    /\ pc = "idle"
    /\ engine = "Plain"
    /\ ~shut
    /\ shut' = TRUE
    /\ eof' = TRUE
    /\ wire' = IF readable THEN wire ELSE <<>>
    /\ result' = Ok("shutdown", <<>>)
    /\ UNCHANGED <<engine, oldPlain, cloned, prefixed, sideBySide, codec, rx_buf, tx_buf, pc, chan, spin, rxAtCall,
                   sentFrames, delivered, queued, accepted, lastWrite, given,
                   sendFailed, measured>>

\* libc::shutdown fails (the socket is not connected): the error is returned
ShutdownError ==
    /\ pc = "idle"
    /\ engine = "Plain"
    /\ ~shut
    /\ result' = Err("shutdown", "NotConnected")
    /\ UNCHANGED <<engine, oldPlain, cloned, prefixed, sideBySide, shut, codec, rx_buf, tx_buf, pc, chan, spin, rxAtCall,
                   wire, eof, sentFrames, delivered, queued, accepted, lastWrite,
                   given, sendFailed, measured>>

(***************************************************************************)
(* The codecs on their own: a buffer is loaded with the encoding of one    *)
(* frame and from_bytes is applied to it once.                             *)
(***************************************************************************)
CodecLoad(p, t) ==
    /\ ~given.loaded
    /\ rx_buf' = Encode(codec, p) \o t
    /\ given' = [payload |-> p, trailing |-> t, loaded |-> TRUE, at |-> 0, to |-> 0,
                 short |-> FALSE, buf |-> <<>>, boundary |-> 0, masked |-> FALSE]
    /\ UNCHANGED <<engine, oldPlain, cloned, prefixed, sideBySide, shut, codec, tx_buf, pc, chan, spin, result, rxAtCall, wire,
                   eof, sentFrames, delivered, queued, accepted, lastWrite, sendFailed,
                   measured>>

\* the buffer is loaded with the encoding of one frame in which the byte at
\* position i (counted from 1) was changed to v
CodecLoadGarbled(p, i, v) ==
    LET bytes == Encode(codec, p)
    IN  /\ ~given.loaded
        /\ i \in 1..Len(bytes)
        /\ v \in GarbledBytes
        /\ v # bytes[i]
        /\ rx_buf' = [bytes EXCEPT ![i] = v]
        /\ given' = [payload |-> p, trailing |-> <<>>, loaded |-> TRUE, at |-> i, to |-> v,
                     short |-> FALSE, buf |-> <<>>, boundary |-> 0, masked |-> FALSE]
        /\ UNCHANGED <<engine, oldPlain, cloned, prefixed, sideBySide, shut, codec, tx_buf, pc, chan, spin, result, rxAtCall, wire,
                       eof, sentFrames, delivered, queued, accepted, lastWrite, sendFailed,
                       measured>>

\* the buffer is loaded with one frame whose payload length is at the edge of
\* a length class, as to_bytes encodes it or (masked) as a client sends it,
\* followed by the bytes t
\* the calls of payload() made on one decoded frame
MaxPayloadCalls == 2

\* payload() is called on the frame from_bytes returned; it takes &self, so
\* the frame stays as it is, and the value returned is kept
FramePayload ==
    /\ result.op = "from_bytes"
    /\ result.kind = "Some"
    /\ Len(measured.payload) < MaxPayloadCalls
    /\ measured' = [measured EXCEPT
                      !.payload = Append(@, payload(codec, result.frames[1]))]
    /\ UNCHANGED <<engine, oldPlain, cloned, prefixed, sideBySide, shut, codec, rx_buf, tx_buf, pc, chan, spin, result,
                   rxAtCall, wire, eof, sentFrames, delivered, queued, accepted,
                   lastWrite, given, sendFailed>>

CodecLoadBoundary(n, masked, t) ==
    /\ ~given.loaded
    /\ codec = "Simple" => n < U16
    /\ masked => codec = "WebSocket"
    /\ rx_buf' = (IF masked THEN ClientFrameBytes(n) ELSE Encode(codec, PayloadOfLen(n))) \o t
    /\ given' = [payload |-> <<>>, trailing |-> t, loaded |-> TRUE, at |-> 0, to |-> 0,
                 short |-> FALSE, buf |-> <<>>, boundary |-> n, masked |-> masked]
    /\ UNCHANGED <<engine, oldPlain, cloned, prefixed, sideBySide, shut, codec, tx_buf, pc, chan, spin, result, rxAtCall,
                   wire, eof, sentFrames, delivered, queued, accepted, lastWrite,
                   sendFailed, measured>>

\* the beginnings of frames whose header declares more payload than follows
ShortHeaders(c) ==
    CASE c = "Simple" ->
           {<<START, 0, 5, 23, 1>>, <<START, 255, 255, 23, 1, 23>>, <<START, 1, 0, 23, END>>}
      [] c = "Checksum32" ->
           {<<0, 0, 0, 5, 23, 1, 23, 1, 23>>, <<0, 0, 1, 0, 23, 1, 23, 1, 23, 1>>,
            <<255, 255, 255, 255, 23, 1, 23, 1, 23>>}
      [] c = "WebSocket" ->
           {<<130, 5, 23, 1, 23>>, <<130, 126, 1, 0, 23>>, <<130, 126, 255, 255, 23, 1>>,
            <<130, 127, 0, 0, 0, 0, 0, 1, 0, 0, 23>>,
            <<130, 127, 0, 0, 0, 0, 0, 1, 0>>,
            <<130, 127, 255, 255, 255, 255, 255, 255, 255, 255, 23>>,
            <<130, 133, 1, 2, 3, 4, 23>>, <<130, 254, 1, 0, 1, 2, 3, 4, 23, 1>>,
            <<130, 254, 1, 0, 1, 2, 3>>}

\* the buffers that hold less than one frame: the proper prefixes of the
\* encodings of frames, and headers that declare more than follows
ShortBuffers(c) ==
    UNION {ProperPrefixes(Encode(c, PayloadOfLen(n))) :
              n \in (0..MaxPayloadLen) \cup {ShortLongLen}}
      \cup ShortHeaders(c)

\* the buffer is loaded with less than one frame
CodecLoadShort(b) ==
    /\ ~given.loaded
    /\ b \in ShortBuffers(codec)
    /\ rx_buf' = b
    /\ given' = [payload |-> <<>>, trailing |-> <<>>, loaded |-> TRUE, at |-> 0, to |-> 0,
                 short |-> TRUE, buf |-> b, boundary |-> 0, masked |-> FALSE]
    /\ UNCHANGED <<engine, oldPlain, cloned, prefixed, sideBySide, shut, codec, tx_buf, pc, chan, spin, result, rxAtCall, wire,
                   eof, sentFrames, delivered, queued, accepted, lastWrite, sendFailed,
                   measured>>

\* a frame with n payload bytes: built from a payload, or (masked) returned
\* by the decoder for the bytes a client sent
FrameOfLen(c, n, masked) ==
    IF masked THEN from_bytes(c, ClientFrameBytes(n)).frame
    ELSE FrameNew(c, PayloadOfLen(n))

\* the leading bytes of an encoding that are kept: the longest header
HeadLen == 14

\* len_as_vec() and to_bytes().len() are taken of one frame, and the leading
\* bytes and the last byte of to_bytes() are kept; overflow_checks tells
\* whether the build panics on integer overflow or wraps
FrameMeasure(n, masked, overflow_checks) ==
    /\ ~measured.taken
    /\ codec = "Simple" => n < U16
    /\ masked => codec = "WebSocket" /\ from_bytes(codec, ClientFrameBytes(n)).kind = "Some"
    /\ \E f \in {FrameOfLen(codec, n, masked)} :
         \E bytes \in {to_bytes(codec, f)} :
           measured' =
             IF overflow_checks /\ codec = "Simple" /\ SimpleLenOverflows(f)
             THEN [taken |-> TRUE, payload_len |-> n, mask |-> masked,
                   len_as_vec |-> -1, to_bytes |-> -1, head |-> <<>>, last |-> 0,
                   panic |-> TRUE, payload |-> <<>>]
             ELSE [taken |-> TRUE, payload_len |-> n, mask |-> masked,
                   len_as_vec |-> len_as_vec(codec, f),
                   to_bytes |-> Len(bytes),
                   head |-> SubSeq(bytes, 1, Min(Len(bytes), HeadLen)),
                   last |-> bytes[Len(bytes)],
                   panic |-> FALSE, payload |-> <<>>]
    /\ UNCHANGED <<engine, oldPlain, cloned, prefixed, sideBySide, shut, codec, rx_buf, tx_buf, pc, chan, spin, result, rxAtCall,
                   wire, eof, sentFrames, delivered, queued, accepted, lastWrite,
                   given, sendFailed>>

CodecDecode ==
    LET dec == from_bytes(codec, rx_buf)
    IN  /\ given.loaded
        /\ result = NoResult
        /\ rx_buf' = dec.buf
        /\ result' = [op |-> "from_bytes", kind |-> dec.kind,
                      frames |-> IF dec.kind = "Some" THEN <<dec.frame>> ELSE <<>>,
                      err |-> "none", text |-> ""]
        /\ UNCHANGED <<engine, oldPlain, cloned, prefixed, sideBySide, shut, codec, tx_buf, pc, chan, spin, rxAtCall, wire, eof,
                       sentFrames, delivered, queued, accepted, lastWrite, given, sendFailed,
                       measured>>

OpTypes == {"Continuation", "Text", "Binary", "Close", "Ping", "Pong"}

\* op_type() of a frame. The arms of its match name CONTINUATION, TEXT, ...
\* bare, while the constants are associated to OpCode (OpCode::TEXT, as new
\* writes them): a bare name in a pattern is a new binding, which matches
\* every value, so the first arm is taken whatever the op code is
WebSocketOpType(f) ==
    LET arms == <<"Continuation", "Text", "Binary", "Close", "Ping", "Pong">>
        Matches(i, op_code) == TRUE
    IN  arms[CHOOSE i \in 1..Len(arms) :
               /\ Matches(i, f.op_code)
               /\ \A j \in 1..(i - 1) : ~Matches(j, f.op_code)]

\* the frame type new is given for an op type
FrameTypeOf(op_type) ==
    IF op_type \in {"Continuation", "Text", "Binary"} THEN "Data" ELSE "Control"

\* op_type() is called on a frame built by new with the op type t; the
\* result keeps the frame, what op_type() returned (kind) and t (text)
OpTypeOfNew(p, t) ==
    /\ codec = "WebSocket"
    /\ ~given.loaded
    /\ result = NoResult
    /\ \E f \in {WebSocketFrameNew(p, FrameTypeOf(t), t)} :
         result' = [op |-> "op_type", kind |-> WebSocketOpType(f), frames |-> <<f>>,
                    err |-> "none", text |-> t]
    /\ UNCHANGED <<engine, oldPlain, cloned, prefixed, sideBySide, shut, codec, rx_buf, tx_buf, pc, chan, spin,
                   rxAtCall, wire, eof, sentFrames, delivered, queued, accepted,
                   lastWrite, given, sendFailed, measured>>
\* the buffer is loaded with the encoding of a frame of op type t, followed by
\* the bytes tr; the bytes loaded are kept
CodecLoadOp(p, t, tr) ==
    /\ codec = "WebSocket"
    /\ ~given.loaded
    /\ result = NoResult
    /\ \E bytes \in {WebSocketToBytes(WebSocketFrameNew(p, FrameTypeOf(t), t)) \o tr} :
         /\ rx_buf' = bytes
         /\ given' = [payload |-> p, trailing |-> tr, loaded |-> TRUE, at |-> 0, to |-> 0,
                      short |-> FALSE, buf |-> bytes, boundary |-> 0, masked |-> FALSE]
    /\ UNCHANGED <<engine, oldPlain, cloned, prefixed, sideBySide, shut, codec, tx_buf, pc, chan, spin, result,
                   rxAtCall, wire, eof, sentFrames, delivered, queued, accepted,
                   lastWrite, sendFailed, measured>>
\* op_type() is called on the frame from_bytes returned; the result keeps the
\* frame, what op_type() returned (kind) and the op type whose op code the
\* header carried (text)
OpTypeOfDecoded ==
    /\ codec = "WebSocket"
    /\ result.op = "from_bytes"
    /\ result.kind = "Some"
    /\ given.buf # <<>>
    /\ \E t \in {o \in OpTypes : OpCodeOf(o) = BitAnd(given.buf[1], FIN_CLEAR_MASK)} :
         result' = [op |-> "op_type", kind |-> WebSocketOpType(result.frames[1]),
                    frames |-> result.frames, err |-> "none", text |-> t]
    /\ UNCHANGED <<engine, oldPlain, cloned, prefixed, sideBySide, shut, codec, rx_buf, tx_buf, pc, chan, spin,
                   rxAtCall, wire, eof, sentFrames, delivered, queued, accepted,
                   lastWrite, given, sendFailed, measured>>

(***************************************************************************)
(* A stream and its clone on one connection. Clone copies rx_buf and tx_buf *)
(* and shares the descriptor, so the reads of both take bytes from the same *)
(* wire.                                                                    *)
(***************************************************************************)
\* clone() takes &self between two calls: the clone gets copies of the
\* buffers as they are and the same descriptor
CloneStream ==
    /\ ~cloned.made
    /\ pc = "idle"
    /\ cloned' = [made |-> TRUE, rx_buf |-> rx_buf, tx_buf |-> tx_buf, delivered |-> <<>>]
    /\ UNCHANGED <<engine, oldPlain, prefixed, sideBySide, shut, codec, rx_buf, tx_buf, pc, chan, spin, result,
                   rxAtCall, wire, eof, sentFrames, delivered, queued, accepted,
                   lastWrite, given, sendFailed, measured>>

\* a whole nb_recv call of the clone: its reads take the next k bytes of the
\* connection into its own rx_buf, the channel reports would-block and the
\* frames complete in its rx_buf are returned
CloneNbRecv(k) ==
    /\ cloned.made
    /\ k \in 0..Min(Len(wire), BUF_SIZE)
    /\ \E all \in {DecodeAll(codec, cloned.rx_buf \o SubSeq(wire, 1, k))} :
         cloned' = [cloned EXCEPT !.rx_buf = all.buf,
                                  !.delivered = @ \o all.frames]
    /\ wire' = SubSeq(wire, k + 1, Len(wire))
    /\ UNCHANGED <<engine, oldPlain, prefixed, sideBySide, shut, codec, rx_buf, tx_buf, pc, chan, spin, result,
                   rxAtCall, eof, sentFrames, delivered, queued, accepted,
                   lastWrite, given, sendFailed, measured>>

(***************************************************************************)
(* Specifications.                                                         *)
(***************************************************************************)
RecvNext ==
    \/ \E p \in Payloads : PeerSend(p)
    \/ PeerClose
    \/ NbRecvCall
    \/ \E k \in 1..Len(wire) : NbRecvData(k)
    \/ NbRecvZero
    \/ NbRecvWouldBlock
    \/ \E e \in ReadFailures \cup {"UnexpectedEof", "ZeroReturn"} : NbRecvError(e)
    \/ BRecvCall
    \/ \E k \in 1..Len(wire) : BRecvData(k)
    \/ BRecvZero
    \/ \E e \in {"ConnectionReset", "UnexpectedEof"} : BRecvError(e)

SendNext ==
    \/ \E p \in Payloads : \E n \in 0..Len(tx_buf) + MaxPayloadLen + 10 : NbSendWrite(p, n)
    \/ \E p \in Payloads : NbSendWouldBlock(p)
    \/ \E p \in Payloads : \E e \in WriteFailures : NbSendError(p, e)

BSendNext ==
    \/ \E p \in Payloads : \E n \in 0..(MaxPayloadLen + 10) : BSendWrite(p, n)
    \/ \E p \in Payloads : \E e \in {"ConnectionReset", "WriteZero"} : BSendError(p, e)

\* the non-blocking calls of both directions on one stream while the peer is
\* silent, each channel call returning with one of the channel's outcomes
NonBlockingNext ==
    \/ NbRecvCall
    \/ NbRecvWouldBlock
    \/ \E e \in ReadFailures : NbRecvError(e)
    \/ \E p \in Payloads : NbSendWouldBlock(p)
    \/ \E p \in Payloads : \E e \in WriteFailures : NbSendError(p, e)

CodecNext ==
    \/ \E p \in Payloads : \E t \in Trailing : CodecLoad(p, t)
    \/ CodecDecode

\* the codecs on frames one byte of which was changed on the way
GarbledNext ==
    \/ \E p \in Payloads : \E i \in 1..(MaxPayloadLen + 8) : \E v \in GarbledBytes :
           CodecLoadGarbled(p, i, v)
    \/ CodecDecode

\* the codecs on buffers that hold one frame followed by further bytes
\* masked and unmasked frames are decoded and payload() is called on them
UnmaskNext ==
    \/ \E p \in Payloads : \E t \in Trailing : CodecLoad(p, t)
    \/ \E n \in MaskedLens : \E t \in Trailing : CodecLoadBoundary(n, TRUE, t)
    \/ CodecDecode
    \/ FramePayload

\* op_type() on frames built by new and on frames the decoder returned
OpTypeNext ==
    \/ \E p \in Payloads : \E t \in OpTypes : OpTypeOfNew(p, t)
    \/ \E p \in Payloads : \E t \in OpTypes : \E tr \in Trailing : CodecLoadOp(p, t, tr)
    \/ CodecDecode
    \/ OpTypeOfDecoded

\* what the reads of one call on the shared connection take: nothing, the
\* next two bytes, or all that is in flight
SharedReads == {k \in 0..Len(wire) : k \in {0, 2, Len(wire)}}

\* a stream and its clone receive on one connection, their reads interleaved;
\* the peer sends frames of the longest payload
CloneNext ==
    \/ PeerSend(PayloadOfLen(MaxPayloadLen))
    \/ CloneStream
    \/ NbRecvCall
    \/ \E k \in SharedReads \ {0} : NbRecvData(k)
    \/ NbRecvWouldBlock
    \/ \E k \in SharedReads : CloneNbRecv(k)

FrontNext ==
    \/ \E p \in Payloads : \E t \in Trailing : CodecLoad(p, t)
    \/ \E n \in BoundaryLens : \E t \in Trailing : CodecLoadBoundary(n, FALSE, t)
    \/ \E n \in MaskedLens : \E t \in Trailing : CodecLoadBoundary(n, TRUE, t)
    \/ CodecDecode

\* the codecs on buffers that hold less than one frame
ShortNext ==
    \/ \E b \in ShortBuffers(codec) : CodecLoadShort(b)
    \/ CodecDecode

\* the codecs on frames as they arrive: intact and followed by further bytes,
\* or with one byte changed on the way
TransitNext ==
    \/ \E p \in Payloads : \E t \in Trailing : CodecLoad(p, t)
    \/ \E p \in Payloads : \E i \in 1..(MaxPayloadLen + 8) : \E v \in GarbledBytes :
           CodecLoadGarbled(p, i, v)
    \/ CodecDecode

\* the receive path after a garbled frame: the garbled frame arrives and a
\* receive call looks at it, then valid frames arrive
ResyncNext ==
    \/ \E p \in Payloads : \E i \in 1..(MaxPayloadLen + 4) : \E v \in GarbledBytes :
           PeerSendGarbled(p, i, v)
    \/ \E p \in Payloads : given.loaded /\ wire = <<>> /\ result.op = "nb_recv" /\ PeerSend(p)
    \/ NbRecvDrained

\* the receive path after a frame with a wrong checksum: the frame arrives
\* with bytes behind it and a receive call looks at it, then valid frames
\* arrive
BadSumNext ==
    \/ \E p \in Payloads : \E i \in 5..(MaxPayloadLen + 8) : \E v \in GarbledBytes :
         \E t \in Trailing : PeerSendBadSum(p, i, v, t)
    \/ \E p \in Payloads : given.loaded /\ wire = <<>> /\ result.op = "nb_recv" /\ PeerSend(p)
    \/ NbRecvDrained

\* the frames' lengths at the edges of the length classes
MeasureNext ==
    \E n \in MeasuredLens : \E masked \in BOOLEAN : \E overflow_checks \in BOOLEAN :
        FrameMeasure(n, masked, overflow_checks)

\* a read that takes every byte in flight, up to the size of the chunk
NbRecvFill == NbRecvData(Min(Len(wire), BUF_SIZE))

\* the receive path on frames of boundary lengths: the peer sends one such
\* frame and then frames of the usual lengths, and each nb_recv call drains
\* everything in flight
BoundaryNext ==
    \/ \E n \in BoundaryLens : PeerSendBoundary(n)
    \/ \E p \in Payloads : sentFrames # <<>> /\ PeerSend(p)
    \/ NbRecvDrained

\* one trip round the drain loop of nb_recv, the reads filling the chunk
DrainRead ==
    \/ \E e \in ReadFailures \cup {"UnexpectedEof", "ZeroReturn"} : NbRecvError(e)
    \/ NbRecvFill
    \/ NbRecvZero
    \/ NbRecvWouldBlock

\* the drain loop of nb_recv on a connection that carries one frame
DrainNext ==
    \/ \E p \in Payloads : sentFrames = <<>> /\ PeerSend(p)
    \/ PeerClose
    \/ NbRecvCall
    \/ DrainRead

\* one trip round the read loop of b_recv, the reads filling the chunk
BRecvFill == BRecvData(Min(Len(wire), BUF_SIZE))

BRecvRead ==
    \/ \E e \in {"ConnectionReset", "UnexpectedEof"} : BRecvError(e)
    \/ BRecvFill
    \/ BRecvZero

\* b_recv on a connection that carries one frame
BlockingNext ==
    \/ \E p \in Payloads : sentFrames = <<>> /\ PeerSend(p)
    \/ PeerClose
    \/ BRecvCall
    \/ BRecvRead

\* the channel results given to both streams: a chunk of data, the no-data
\* signal, the count of bytes a write accepted
NoData == [kind |-> "nodata", bytes |-> <<>>, n |-> 0]
Data(b) == [kind |-> "data", bytes |-> b, n |-> Len(b)]
Accepted(n) == [kind |-> "accepted", bytes |-> <<>>, n |-> n]

\* what the channel of each stream makes of a channel result: no data is
\* ErrorKind::WouldBlock on a socket, WantRead from ssl_read and WantWrite
\* from ssl_write
PlainChannel(r) == IF r.kind = "nodata" THEN "WouldBlock" ELSE "Ok"
SslRead(r) == IF r.kind = "nodata" THEN "WantRead" ELSE "Ok"
SslWrite(r) == IF r.kind = "nodata" THEN "WantWrite" ELSE "Ok"

\* what nb_recv returns once its read loop has ended with buf in rx_buf
NbRecvDecoded(c, buf) ==
    LET all == DecodeAll(c, buf)
    IN  [rx_buf |-> all.buf,
         result |-> IF all.panic THEN Aborted("nb_recv")
                    ELSE IF Len(all.frames) > 0 THEN Ok("nb_recv", all.frames)
                    ELSE WouldBlock("nb_recv")]

\* Plain::nb_recv on the results its reads get, in order
RECURSIVE PlainNbRecv(_, _, _)
PlainNbRecv(c, buf, reads) ==
    LET r == Head(reads)
    IN  IF PlainChannel(r) = "WouldBlock" THEN NbRecvDecoded(c, buf)
        ELSE PlainNbRecv(c, buf \o r.bytes, Tail(reads))

\* Secure::nb_recv on the results its reads get, in order
RECURSIVE SecureNbRecv(_, _, _)
SecureNbRecv(c, buf, reads) ==
    LET r == Head(reads)
    IN  IF SslRead(r) = "WantRead" THEN NbRecvDecoded(c, buf)
        ELSE IF SslRead(r) # "Ok"
        THEN [rx_buf |-> buf, result |-> Err("nb_recv", RecvError(SslRead(r)))]
        ELSE SecureNbRecv(c, buf \o r.bytes, Tail(reads))

\* Plain::nb_send of a frame with encoding frame_bytes, its write getting w
PlainNbSend(buf, frame_bytes, w) ==
    LET out_buf == NbSendOffer(buf, frame_bytes)
    IN  IF PlainChannel(w) = "WouldBlock"
        THEN [tx_buf |-> NbSendAfterFailure(out_buf), result |-> WouldBlock("nb_send")]
        ELSE NbSendAfterWrite(out_buf, w.n)

\* a faulty Secure::nb_send that puts the bytes back on WantWrite
SecureNbSend_KeepsOnWantWrite(buf, frame_bytes, w) ==
    LET out_buf == buf \o frame_bytes
    IN  IF SslWrite(w) = "WantWrite"
        THEN [tx_buf |-> out_buf, result |-> WouldBlock("nb_send")]
        ELSE NbSendAfterWrite(out_buf, w.n)

\* Secure::nb_send of a frame with encoding frame_bytes, its write getting w
SecureNbSend(buf, frame_bytes, w) ==
    LET out_buf == buf \o frame_bytes
    IN  IF SslWrite(w) = "WantWrite"
        THEN [tx_buf |-> <<>>, result |-> WouldBlock("nb_send")]
        ELSE IF SslWrite(w) # "Ok"
        THEN [tx_buf |-> <<>>, result |-> Err("nb_send", SendError(SslWrite(w)))]
        ELSE IF w.n = 0
        THEN [tx_buf |-> <<>>, result |-> Err("nb_send", "Other")]
        ELSE IF w.n < Len(out_buf)
        THEN [tx_buf |-> Slice(out_buf, w.n, Len(out_buf)),
              result |-> WouldBlock("nb_send")]
        ELSE [tx_buf |-> <<>>, result |-> Ok("nb_send", <<>>)]

\* the peer's frame comes into reach of both streams
SideBySideArrive(p) ==
    /\ sideBySide.arrived < MaxFrames
    /\ sideBySide' = [sideBySide EXCEPT !.wire = @ \o Encode(codec, p),
                                         !.arrived = @ + 1]
    /\ UNCHANGED <<engine, oldPlain, cloned, prefixed, codec, rx_buf, tx_buf, pc, chan, spin, result, rxAtCall,
                   wire, eof, sentFrames, delivered, queued, accepted, lastWrite,
                   given, sendFailed, measured, shut>>

\* the non-empty ones of two chunks, then the no-data signal
ReadsOf(first, second) ==
    SelectSeq(<<Data(first), Data(second)>>, LAMBDA r : r.n > 0) \o <<NoData>>

\* nb_recv on both streams: the first `cut` bytes in flight arrive in two
\* chunks, the first of k bytes, then the channel has no data
SideBySideNbRecv(k, cut) ==
    LET reads == ReadsOf(SubSeq(sideBySide.wire, 1, k),
                         SubSeq(sideBySide.wire, k + 1, cut))
        p == PlainNbRecv(codec, sideBySide.plain.rx_buf, reads)
        s == SecureNbRecv(codec, sideBySide.secure.rx_buf, reads)
    IN  /\ cut \in 0..Len(sideBySide.wire)
        /\ k \in 0..cut
        /\ sideBySide' =
              [sideBySide EXCEPT
                 !.wire = SubSeq(@, cut + 1, Len(@)),
                 !.last = "nodata",
                 !.plain = [@ EXCEPT !.rx_buf = p.rx_buf, !.result = p.result],
                 !.secure = [@ EXCEPT !.rx_buf = s.rx_buf, !.result = s.result]]
        /\ UNCHANGED <<engine, oldPlain, cloned, prefixed, codec, rx_buf, tx_buf, pc, chan, spin, result,
                       rxAtCall, wire, eof, sentFrames, delivered, queued, accepted,
                       lastWrite, given, sendFailed, measured, shut>>

\* nb_send of the same frame on both streams, the write getting w; the
\* sends start once the peer's frames have all been read
SideBySideNbSend(payload_bytes, w) ==
    LET p == PlainNbSend(sideBySide.plain.tx_buf, Encode(codec, payload_bytes), w)
        s == SecureNbSend(sideBySide.secure.tx_buf, Encode(codec, payload_bytes), w)
    IN  /\ sideBySide.arrived = MaxFrames
        /\ sideBySide.wire = <<>>
        /\ sideBySide.sends < MaxSends
        /\ sideBySide' =
              [sideBySide EXCEPT
                 !.sends = @ + 1,
                 !.last = w.kind,
                 !.plain = [@ EXCEPT !.tx_buf = p.tx_buf, !.result = p.result],
                 !.secure = [@ EXCEPT !.tx_buf = s.tx_buf, !.result = s.result]]
        /\ UNCHANGED <<engine, oldPlain, cloned, prefixed, codec, rx_buf, tx_buf, pc, chan, spin, result,
                       rxAtCall, wire, eof, sentFrames, delivered, queued, accepted,
                       lastWrite, given, sendFailed, measured, shut>>

\* the write results a send on the Plain stream can get: no room, or a count
\* of accepted bytes up to the bytes offered
WriteResults(payload_bytes) ==
    {NoData} \cup
    {Accepted(n) : n \in 0..(Len(sideBySide.plain.tx_buf)
                              + Len(Encode(codec, payload_bytes)))}

SideBySideNext ==
    \/ \E p \in Payloads : SideBySideArrive(p)
    \/ \E cut \in 0..Len(sideBySide.wire) : \E k \in {0, cut \div 2} :
          SideBySideNbRecv(k, cut)
    \/ \E p \in Payloads : \E w \in WriteResults(p) : SideBySideNbSend(p, w)

SideBySideSpec == Init /\ [][SideBySideNext]_vars

(***************************************************************************)
(* The length-prefixed streams Bstream, NbetStream and the crate-root      *)
(* SimpleStream: write puts two length bytes before the payload, and the   *)
(* reader's ReadBuffer computes the payload length from them.              *)
(***************************************************************************)
PrefixedStreams == {"Bstream", "NbetStream", "SimpleStream"}

\* the payload lengths written
PrefixedLens == (0..MaxPayloadLen) \cup {255, 256, 257, U16 - 1}

\* plen_buf of Bstream::write and SimpleStream::write: << binds tighter than
\* &, so the first byte is (len & 0xFF00) as u8
MaskedPrefix(n) ==
    <<BitAnd(n % U16, (255 * 256) % U16) % 256, BitAnd(n % U16, 255) % 256>>

\* plen_buf of NbetStream::write: (plen >> 8) as u8, plen as u8
ShiftedPrefix(n) == <<((n % U16) \div 256) % 256, (n % U16) % 256>>

WritePrefix(stream, n) ==
    IF stream = "NbetStream" THEN ShiftedPrefix(n) ELSE MaskedPrefix(n)

\* ReadBuffer::calc_payload_len on the two bytes of c_buffer
CalcPayloadLen(c_buffer) == BitOr((c_buffer[1] * 256) % U16, c_buffer[2])

\* write(buffer) with buffer.len() = n: the two bytes put before the payload
PrefixedWrite(stream, n) ==
    /\ ~prefixed.written
    /\ prefixed' = [written |-> TRUE, read |-> FALSE, stream |-> stream, len |-> n,
                    head |-> WritePrefix(stream, n), payload_len |-> 0]
    /\ UNCHANGED <<engine, codec, rx_buf, tx_buf, pc, chan, spin, result, rxAtCall,
                   wire, eof, sentFrames, delivered, queued, accepted, lastWrite,
                   given, sendFailed, measured, shut, sideBySide, oldPlain, cloned>>

\* the reader has the two length bytes and computes the payload length
PrefixedRead ==
    /\ prefixed.written
    /\ ~prefixed.read
    /\ prefixed' = [prefixed EXCEPT !.read = TRUE,
                                     !.payload_len = CalcPayloadLen(prefixed.head)]
    /\ UNCHANGED <<engine, codec, rx_buf, tx_buf, pc, chan, spin, result, rxAtCall,
                   wire, eof, sentFrames, delivered, queued, accepted, lastWrite,
                   given, sendFailed, measured, shut, sideBySide, oldPlain, cloned>>

PrefixedNext ==
    \/ \E st \in PrefixedStreams : \E n \in PrefixedLens : PrefixedWrite(st, n)
    \/ PrefixedRead

PrefixedSpec == Init /\ [][PrefixedNext]_vars

(***************************************************************************)
(* The byte-by-byte streams: plain_old::Plain, nonblocking::Plain and      *)
(* blocking::Plain walk a state machine over the bytes of each read.       *)
(* Offsets count from 0 as in the code: buf[offset] is buf[offset + 1].    *)
(***************************************************************************)
Max(a, b) == IF a > b THEN a ELSE b

\* frame::from_slice: START, the length in two bytes, the bytes, END
FromSlice(slice) ==
    <<START, ((Len(slice) % U16) \div 256) % 256, Len(slice) % 256>> \o slice \o <<END>>

\* payload_len(): the two bytes behind the start byte, big-endian
OldPayloadLen(m) == m.buffer[2] * 256 + m.buffer[3]

\* the machine after pushing bytes onto buffer and moving to state st
Pushed(m, bytes, st) ==
    [m EXCEPT !.buffer = @ \o bytes,
              !.peak = Max(@, Len(m.buffer) + Len(bytes)),
              !.state = st,
              !.path = IF st = m.state THEN @ ELSE Append(@, st)]

\* read_for_frame_start: skip to the first START byte
ReadForFrameStart(m, buf, offset) ==
    LET hits == {i \in (offset + 1)..Len(buf) : buf[i] = START}
    IN  IF hits = {} THEN [m |-> m, offset |-> Len(buf)]
        ELSE LET first == CHOOSE i \in hits : \A j \in hits : i <= j
             IN  [m |-> Pushed(m, <<START>>, "PayloadLen"), offset |-> first]

\* read_payload_len: push bytes until buffer holds three
ReadPayloadLen(m, buf, offset) ==
    LET need == 3 - Len(m.buffer)
        take == Min(need, Len(buf) - offset)
    IN  [m |-> Pushed(m, SubSeq(buf, offset + 1, offset + take),
                      IF take = need /\ take > 0 THEN "Payload" ELSE m.state),
         offset |-> offset + take]

\* read_payload: push a byte, then compare buffer.len() with
\* payload_len() + 3; the length is never equal once it is past it
ReadPayload(m, buf, offset) ==
    LET avail == Len(buf) - offset
        need  == OldPayloadLen(m) + 3 - Len(m.buffer)
        take  == IF need >= 1 THEN Min(need, avail) ELSE avail
    IN  [m |-> Pushed(m, SubSeq(buf, offset + 1, offset + take),
                      IF need >= 1 /\ take = need THEN "End" ELSE m.state),
         offset |-> offset + take]

\* read_for_frame_end: on END the payload is completed and the rest of buf
\* goes to scratch; on another byte the machine starts over, that byte and
\* the rest in scratch; with no byte left nothing happens
ReadForFrameEnd(m, buf, offset) ==
    IF offset >= Len(buf) THEN m
    ELSE IF buf[offset + 1] = END
    THEN [m EXCEPT !.state = "Start",
                   !.path = Append(@, "Start"),
                   !.rx_queue = Append(@, SubSeq(m.buffer, 4, Len(m.buffer))),
                   !.emitted = Append(@, SubSeq(m.buffer, 4, Len(m.buffer))),
                   !.buffer = <<>>,
                   !.scratch = SubSeq(buf, offset + 2, Len(buf))]
    ELSE [m EXCEPT !.state = "Start",
                   !.path = Append(@, "Start"),
                   !.buffer = <<>>,
                   !.scratch = SubSeq(buf, offset + 1, Len(buf))]

\* one turn of the receive loop after a read that returned data
OldReadTurn(m, data) ==
    LET buf == m.scratch \o data
        m0  == [m EXCEPT !.scratch = <<>>]
        a   == IF m0.state = "Start" THEN ReadForFrameStart(m0, buf, 0)
               ELSE [m |-> m0, offset |-> 0]
        b   == IF a.m.state = "PayloadLen" THEN ReadPayloadLen(a.m, buf, a.offset) ELSE a
        c   == IF b.m.state = "Payload" THEN ReadPayload(b.m, buf, b.offset) ELSE b
    IN  IF c.m.state = "End" THEN ReadForFrameEnd(c.m, buf, c.offset) ELSE c.m

\* plain_old nb_recv (nonblocking recv followed by drain_rx_queue) on the
\* results its reads get: on would-block the queued payloads are returned
\* if there are any, the would-block error otherwise
RECURSIVE OldNbRecv(_, _)
OldNbRecv(m, reads) ==
    LET r == Head(reads)
    IN  IF PlainChannel(r) = "WouldBlock"
        THEN [m EXCEPT !.rx_queue = <<>>,
                       !.returned = m.rx_queue,
                       !.result = IF m.rx_queue # <<>> THEN Ok("nb_recv", <<>>)
                                  ELSE WouldBlock("nb_recv")]
        ELSE OldNbRecv(OldReadTurn(m, r.bytes), Tail(reads))

\* the peer sends a well-formed frame to the byte-by-byte stream and the
\* Plain stream beside it
OldArrive(p) ==
    /\ Len(oldPlain.arrived) < MaxFrames
    /\ oldPlain' = [oldPlain EXCEPT !.wire = @ \o FromSlice(p),
                                     !.arrived = Append(@, p)]
    /\ UNCHANGED <<engine, codec, rx_buf, tx_buf, pc, chan, spin, result, rxAtCall,
                   wire, eof, sentFrames, delivered, queued, accepted, lastWrite,
                   given, sendFailed, measured, shut, sideBySide, cloned, prefixed>>

\* a non-blocking receive call on both streams: the first `cut` bytes in
\* flight arrive in two chunks, the first of k bytes, then there is no data
OldNbRecvCall(k, cut) ==
    LET reads == ReadsOf(SubSeq(oldPlain.wire, 1, k), SubSeq(oldPlain.wire, k + 1, cut))
        new   == PlainNbRecv("Simple", oldPlain.plain.rx_buf, reads)
    IN  /\ cut \in 0..Len(oldPlain.wire)
        /\ k \in 0..cut
        /\ oldPlain' = [OldNbRecv(oldPlain, reads) EXCEPT
                          !.wire = SubSeq(@, cut + 1, Len(@)),
                          !.plain = new]
        /\ UNCHANGED <<engine, codec, rx_buf, tx_buf, pc, chan, spin, result,
                       rxAtCall, wire, eof, sentFrames, delivered, queued, accepted,
                       lastWrite, given, sendFailed, measured, shut, sideBySide,
                       cloned, prefixed>>

\* Vec::remove and Vec::insert at index x, counted from 0
RemoveAt(q, x) == SubSeq(q, 1, x) \o SubSeq(q, x + 2, Len(q))
InsertAt(q, x, e) == SubSeq(q, 1, x) \o <<e>> \o SubSeq(q, x + 1, Len(q))

\* the write results send can get for a buffer of at most this many bytes
Failed == [kind |-> "failed", bytes |-> <<>>, n |-> 0]
WriteResultsUpTo(n) == {NoData, Failed} \cup {Accepted(k) : k \in 0..n}

\* the loop of nonblocking::Plain::send from index x to n, the queue length
\* taken before the loop; writes are the results of the writes in order.
\* remove(x) panics when x is not below the queue's length. Of the write
\* results, `used` were consumed, and `fits` tells that no count was more
\* than the bytes offered
RECURSIVE OldSendLoop(_, _, _, _, _)
OldSendLoop(m, x, n, writes, used) ==
    IF x >= n THEN [m |-> m, panic |-> FALSE, used |-> used, fits |-> TRUE]
    ELSE IF x >= Len(m.tx_queue)
    THEN [m |-> [m EXCEPT !.result = Aborted("send")], panic |-> TRUE, used |-> used,
          fits |-> TRUE]
    ELSE IF writes = <<>>
    THEN [m |-> m, panic |-> FALSE, used |-> used, fits |-> FALSE]
    ELSE
      LET b == m.tx_queue[x + 1]
          q == RemoveAt(m.tx_queue, x)
          w == Head(writes)
      IN  IF w.kind = "failed"
          THEN [m |-> [m EXCEPT !.tx_queue = q, !.failed = TRUE,
                                !.result = Err("send", "ConnectionReset")],
                panic |-> FALSE, used |-> used + 1, fits |-> TRUE]
          ELSE IF PlainChannel(w) = "WouldBlock"
          THEN [m |-> [m EXCEPT !.tx_queue = InsertAt(q, x, b)],
                panic |-> FALSE, used |-> used + 1, fits |-> TRUE]
          ELSE IF w.n > Len(b)
          THEN [m |-> m, panic |-> FALSE, used |-> used + 1, fits |-> FALSE]
          ELSE IF w.n < Len(b)
          THEN [m |-> [m EXCEPT
                         !.accepted = @ \o SubSeq(b, 1, w.n),
                         !.tx_queue = InsertAt(q, x, Slice(b, Len(b) - w.n, Len(b)))],
                panic |-> FALSE, used |-> used + 1, fits |-> TRUE]
          ELSE OldSendLoop([m EXCEPT !.accepted = @ \o b, !.tx_queue = q],
                           x + 1, n, Tail(writes), used + 1)

\* nonblocking::Plain::send: the framed message goes to the back of the
\* queue, then the loop writes
OldSend(msg, writes) ==
    LET m0  == [oldPlain EXCEPT !.tx_queue = Append(@, FromSlice(msg)),
                                !.passed = Append(@, msg),
                                !.result = Ok("send", <<>>)]
        out == OldSendLoop(m0, 0, Len(m0.tx_queue), writes, 0)
    IN  /\ Len(oldPlain.passed) < MaxSends
        /\ oldPlain.result.kind # "Panic"
        /\ out.fits
        /\ out.used = Len(writes)
        /\ oldPlain' = out.m
        /\ UNCHANGED <<engine, codec, rx_buf, tx_buf, pc, chan, spin, result,
                       rxAtCall, wire, eof, sentFrames, delivered, queued, accepted,
                       lastWrite, given, sendFailed, measured, shut, sideBySide,
                       cloned, prefixed>>

\* the sequences of at most MaxSends write results
WriteRuns ==
    UNION {[1..k -> WriteResultsUpTo(MaxPayloadLen + 4)] : k \in 0..MaxSends}

OldSendNext == \E msg \in Payloads : \E writes \in WriteRuns : OldSend(msg, writes)

OldSendSpec == Init /\ [][OldSendNext]_vars

OldRecvNext ==
    \/ \E p \in Payloads : OldArrive(p)
    \/ \E cut \in 0..Len(oldPlain.wire) : \E k \in 0..cut : OldNbRecvCall(k, cut)

OldRecvSpec == Init /\ [][OldRecvNext]_vars

\* b_recv calls on a connection whose frames may arrive together, so that a
\* read takes more than one frame into the buffer
OverReadNext ==
    \/ \E p \in Payloads : PeerSend(p)
    \/ BRecvCall
    \/ \E k \in 1..Len(wire) : BRecvData(k)
    \/ BRecvError("ConnectionReset")

\* receive calls before and after shutdown, send calls after it; a read
\* takes every byte that has arrived, and once the stream is shut down no
\* read waits and no write is accepted
ShutdownNext ==
    \/ \E p \in Payloads : PeerSend(p)
    \/ \E readable \in BOOLEAN : Shutdown(readable)
    \/ ShutdownError
    \/ NbRecvCall
    \/ NbRecvFill
    \/ NbRecvZero
    \/ ~shut /\ NbRecvWouldBlock
    \/ \E e \in ReadFailures \cup {"UnexpectedEof"} : NbRecvError(e)
    \/ BRecvCall
    \/ BRecvFill
    \/ BRecvZero
    \/ \E e \in {"ConnectionReset", "UnexpectedEof"} : BRecvError(e)
    \/ shut /\ \E p \in Payloads : \E e \in WriteFailures : NbSendError(p, e)
    \/ shut /\ \E p \in Payloads : BSendError(p, "ConnectionReset")

Next == RecvNext \/ SendNext \/ BSendNext

Spec == Init /\ [][Next]_vars

RecvSpec == Init /\ [][RecvNext]_vars

SendSpec == Init /\ [][SendNext]_vars

\* b_send and nb_send calls on one stream, in any order
MixedSendNext == SendNext \/ BSendNext

MixedSendSpec == Init /\ [][MixedSendNext]_vars

BSendSpec == Init /\ [][BSendNext]_vars

NonBlockingSpec == Init /\ [][NonBlockingNext]_vars

CodecSpec == Init /\ [][CodecNext]_vars

GarbledSpec == Init /\ [][GarbledNext]_vars

OverReadSpec == Init /\ [][OverReadNext]_vars

ShutdownSpec == Init /\ [][ShutdownNext]_vars

UnmaskSpec == Init /\ [][UnmaskNext]_vars
OpTypeSpec == Init /\ [][OpTypeNext]_vars
CloneSpec == Init /\ [][CloneNext]_vars

FrontSpec == Init /\ [][FrontNext]_vars

ShortSpec == Init /\ [][ShortNext]_vars

TransitSpec == Init /\ [][TransitNext]_vars

BadSumSpec == Init /\ [][BadSumNext]_vars

ResyncSpec == Init /\ [][ResyncNext]_vars

MeasureSpec == Init /\ [][MeasureNext]_vars

BoundarySpec == Init /\ [][BoundaryNext]_vars

\* a call that is running goes on running: its thread is scheduled, and a
\* channel call it makes returns with one of the channel's outcomes
FairDrainSpec == Init /\ [][DrainNext]_vars /\ WF_vars(DrainRead)

\* a blocking call that is running goes on running: a blocking read returns
\* once the channel has bytes, has failed or is at end of stream
FairBlockingSpec == Init /\ [][BlockingNext]_vars /\ WF_vars(BRecvRead)

(***************************************************************************)
(* Properties.                                                             *)
(***************************************************************************)
PayloadsOf(frames) == [i \in 1..Len(frames) |-> payload(codec, frames[i])]

\* a receive call has looked at everything the peer sent: no byte is in
\* flight, and either nb_recv has returned after its drain loop broke, or
\* b_recv sits in its read loop after a failed decode
ReceivedAll ==
    /\ wire = <<>>
    /\ \/ pc = "idle" /\ result.op = "nb_recv" /\ result.kind \in {"Ok", "WouldBlock"}
       \/ pc = "b_recv"

\* C1: partial-delivery invariance. However the encodings of the frames the
\* peer sent are cut into chunks by the channel reads, the frames returned by
\* the receive calls are the frames sent, in order, with their payloads: the
\* payloads delivered are always a prefix of the payloads sent, and once every
\* byte has been read and handed to the decoder all of them were delivered.
C1_PartialDeliveryInvariance ==
    /\ IsPrefix(PayloadsOf(delivered), sentFrames)
    /\ ReceivedAll => PayloadsOf(delivered) = sentFrames

\* the number of frames whose bytes the latest nb_recv call took in
FramesHandedToCall == Len(sentFrames) - (Len(delivered) - Len(result.frames))

\* the latest nb_recv call began with an empty receive buffer, read the whole
\* concatenation of the frames in flight and then met would-block
CoalescedCall ==
    /\ pc = "idle"
    /\ result.op = "nb_recv"
    /\ result.kind \in {"Ok", "WouldBlock"}
    /\ rxAtCall = 0
    /\ wire = <<>>
    /\ FramesHandedToCall >= 1

\* C2: coalesced delivery. An nb_recv call that is handed the concatenation
\* of K >= 1 encoded frames and then would-block returns exactly those K
\* frames, in order.
C2_CoalescedDelivery ==
    CoalescedCall =>
        /\ result.kind = "Ok"
        /\ PayloadsOf(result.frames)
             = SubSeq(sentFrames, Len(sentFrames) - FramesHandedToCall + 1,
                      Len(sentFrames))

\* C3: codec round trip. Decoding a buffer that holds exactly the encoding
\* of a frame built from payload P returns a frame with payload P, removes
\* as many bytes as the frame's encoded length and leaves the buffer empty.
C3_RoundTrip ==
    (result.op = "from_bytes" /\ given.trailing = <<>>) =>
        /\ result.kind = "Some"
        /\ payload(codec, result.frames[1]) = given.payload
        /\ Len(Encode(codec, given.payload)) - Len(rx_buf)
             = Len(to_bytes(codec, result.frames[1]))
        /\ rx_buf = <<>>

RECURSIVE ConcatEnc(_)
ConcatEnc(ps) == IF ps = <<>> THEN <<>> ELSE Encode(codec, Head(ps)) \o ConcatEnc(Tail(ps))

RECURSIVE BytesOf(_)
BytesOf(frames) ==
    IF frames = <<>> THEN <<>> ELSE to_bytes(codec, Head(frames)) \o BytesOf(Tail(frames))

\* C4: short-write ordering. What an nb_send call offers to the channel is
\* the bytes retained in the transmit buffer followed by the encoding of the
\* new frame, and the bytes accepted by the channel are always a prefix of
\* the concatenation of the encodings of the frames passed to nb_send (on a
\* stream none of whose send calls has returned a fatal error).
C4_ShortWriteOrdering ==
    ~sendFailed =>
        /\ queued # <<>> =>
             lastWrite.offered = lastWrite.before \o Encode(codec, queued[Len(queued)])
        /\ IsPrefix(accepted, ConcatEnc(queued))

\* C5: lossless backpressure. After an nb_send call that ended with
\* would-block, the bytes accepted so far followed by the transmit buffer are
\* the concatenation of the encodings of all frames passed to nb_send.
C5_LosslessBackpressure ==
    (result.op = "nb_send" /\ result.kind = "WouldBlock") =>
        accepted \o tx_buf = ConcatEnc(queued)

\* C6: an nb_send call whose write accepts n > 0 bytes offered the transmit
\* buffer followed by the frame's encoding in one write; with n less than
\* the bytes offered it leaves exactly the unwritten suffix in the transmit
\* buffer and reports would-block, with n all the bytes offered it reports
\* success and the transmit buffer is empty.
C6_NbSendWrite ==
    [][(result'.op = "nb_send" /\ queued' # queued /\ lastWrite'.wrote > 0) =>
         LET offered == tx_buf \o Encode(codec, queued'[Len(queued')])
             n       == lastWrite'.wrote
         IN  /\ lastWrite'.offered = offered
             /\ accepted' = accepted \o SubSeq(offered, 1, n)
             /\ n < Len(offered) =>
                  /\ tx_buf' = SubSeq(offered, n + 1, Len(offered))
                  /\ result'.kind = "WouldBlock"
             /\ n = Len(offered) =>
                  /\ tx_buf' = <<>>
                  /\ result'.kind = "Ok"]_vars

\* a short write made while the transmit buffer held an earlier remainder
C6_Witness ==
    /\ result.op = "nb_send"
    /\ result.kind = "WouldBlock"
    /\ lastWrite.before # <<>>
    /\ lastWrite.wrote > Len(lastWrite.before)
    /\ lastWrite.wrote < Len(lastWrite.offered)
    /\ tx_buf # <<>>

\* C7: an nb_send call whose write accepted zero bytes of a non-empty buffer
\* returns a fatal error, never would-block and never success.
C7_ZeroWriteIsFatal ==
    (result.op = "nb_send" /\ lastWrite.wrote = 0 /\ lastWrite.offered # <<>>) =>
        result.kind = "Err" /\ result.err = "Other"

\* a zero-byte write answered with the error
C7_Witness ==
    /\ result.op = "nb_send"
    /\ lastWrite.wrote = 0
    /\ lastWrite.offered # <<>>
    /\ result.kind = "Err"

\* the buffer begins with the whole encoding of a frame
HoldsCompleteFrame(buf) == \E p \in Payloads : IsPrefix(Encode(codec, p), buf)

\* C8: nb_recv returns would-block exactly when its drain loop ended on
\* would-block and no frame was decoded; a success is never empty and holds
\* every complete frame that was in the buffer, oldest first, so that no
\* complete frame is left behind.
C8_NbRecvOutcome ==
    (pc = "idle" /\ result.op = "nb_recv") =>
        /\ result.kind = "WouldBlock" <=> (chan = "wouldblock" /\ result.frames = <<>>)
        /\ result.kind = "Ok" =>
             /\ result.frames # <<>>
             /\ ~HoldsCompleteFrame(rx_buf)
        /\ IsPrefix(PayloadsOf(delivered), sentFrames)

\* C9: byte conservation on the receive side. The encodings of the frames
\* delivered, then the receive buffer, then the bytes not yet read are the
\* byte stream the peer sent.
C9_ByteConservation ==
    BytesOf(delivered) \o rx_buf \o wire = ConcatEnc(sentFrames)

\* C10: a non-blocking call never suspends: an nb_recv call that is running
\* returns.
C10_NbRecvReturns == (pc = "nb_recv") ~> (pc = "idle")

\* C11: blocking receive ends with a frame or a terminal error; a b_recv
\* call that is reading at end of stream, with no complete frame buffered,
\* returns to the caller.
C11_BRecvReturnsAtEof ==
    (pc = "b_recv" /\ AtEof /\ ~HoldsCompleteFrame(rx_buf)) ~> (pc = "idle")

\* C12: the Simple decoder never returns a frame from a buffer whose first
\* byte is not the start guard, whatever follows it.
C12_NoFrameWithoutStartGuard ==
    (codec = "Simple" /\ result.op = "from_bytes" /\ given.at = 1 /\ given.to # START)
        => result.kind # "Some"

\* a valid frame arrived after a receive call had looked at the garbled
\* frame, and a later nb_recv call has read every byte of it
ValidFrameTakenIn ==
    /\ given.loaded
    /\ sentFrames # <<>>
    /\ wire = <<>>
    /\ pc = "idle"
    /\ result.op = "nb_recv"

\* C13: Simple resynchronization. Once the receive buffer held a frame with a
\* garbled start or end byte, a valid frame the peer sends afterwards is
\* delivered by the receive call that reads it: the engine does not go on
\* answering would-block while valid frames arrive.
C13_Resynchronizes ==
    ValidFrameTakenIn =>
        /\ result.kind = "Ok"
        /\ payload(codec, delivered[Len(delivered)]) = sentFrames[Len(sentFrames)]

\* the decoder was handed a Checksum32 frame one payload byte of which was
\* changed
PayloadByteChanged ==
    /\ codec = "Checksum32"
    /\ result.op = "from_bytes"
    /\ given.at > 4
    /\ given.at <= 4 + Len(given.payload)

\* C14: the Checksum32 decoder returns no frame for the encoding of a payload
\* in which one payload byte was changed to a different value.
C14_ChecksumRejectsChangedPayload == PayloadByteChanged => result.kind = "None"

\* a frame with a changed payload byte was refused and the buffer emptied
C14_Witness ==
    /\ PayloadByteChanged
    /\ Len(given.payload) > 1
    /\ result.kind = "None"
    /\ rx_buf = <<>>

\* C15: no silent failure on blocking send. b_send returns success only if
\* its one write accepted every byte of the frame's encoding.
C15_BSendOkMeansAllWritten ==
    (result.op = "b_send" /\ result.kind = "Ok") =>
        lastWrite.wrote = Len(lastWrite.offered)

\* C16: for every frame, built from a payload or returned by the decoder, the
\* length len_as_vec reports is the number of bytes to_bytes produces.
C16_LenAsVecIsEncodedLength ==
    measured.taken => measured.len_as_vec = measured.to_bytes

\* the readiness an outcome tells the caller to wait for: a would-block of a
\* receive is read readiness, of a send write readiness; an error tells one
\* only if its message names the direction
ReadinessHint(r) ==
    CASE r.kind = "WouldBlock" /\ r.op = "nb_recv" -> "read"
      [] r.kind = "WouldBlock" /\ r.op = "nb_send" -> "write"
      [] r.kind = "Err" /\ r.text = "WantRead"     -> "read"
      [] r.kind = "Err" /\ r.text = "WantWrite"    -> "write"
      [] OTHER                                     -> "none"

OppositeDirectionReported ==
    /\ engine = "Secure"
    /\ pc = "idle"
    /\ \/ result.op = "nb_recv" /\ chan = "WantWrite"
       \/ result.op = "nb_send" /\ chan = "WantRead"

\* C17: the Secure stream keeps the direction. When the TLS channel reported
\* want-write during nb_recv, or want-read during nb_send, the outcome
\* returned is Ok, would-block or an error, and it tells the caller to wait
\* for the readiness the channel asked for.
C17_DirectionKept ==
    OppositeDirectionReported =>
        /\ result.kind \in {"Ok", "WouldBlock", "Err"}
        /\ ReadinessHint(result) = (IF chan = "WantWrite" THEN "write" ELSE "read")

\* the WebSocket decoder was given a buffer of at least the minimal size whose
\* first byte carries opcode bits that are none of the six opcodes
InvalidOpcodeGiven ==
    /\ codec = "WebSocket"
    /\ result.op = "from_bytes"
    /\ given.at = 1
    /\ Len(Encode(codec, given.payload)) >= 5
    /\ BitAnd(given.to, FIN_CLEAR_MASK) \notin {CONTINUATION, TEXT, BINARY, CLOSE, PING, PONG}

\* C18: the WebSocket decoder rejects invalid opcode bits. It returns no
\* frame, leaves the buffer as it was and does not abort the program.
C18_InvalidOpcodeRejected ==
    InvalidOpcodeGiven =>
        /\ result.kind = "None"
        /\ rx_buf = [Encode(codec, given.payload) EXCEPT ![1] = given.to]

\* the header to_bytes must put before the masking key and the payload of a
\* WebSocket frame with opcode op and n payload bytes
LengthClassHeader(op, mask_bit, n) ==
    IF n <= 125 THEN <<BitOr(FIN, op), BitOr(mask_bit, n)>>
    ELSE IF n <= U16 - 1
    THEN <<BitOr(FIN, op), BitOr(mask_bit, 126), n \div 256, n % 256>>
    ELSE <<BitOr(FIN, op), BitOr(mask_bit, 127), 0, 0, 0, 0,
           (n \div 16777216) % 256, (n \div 65536) % 256, (n \div 256) % 256, n % 256>>

WebSocketEncoded == measured.taken /\ codec = "WebSocket"

\* C19: WebSocket encode chooses the length class by the payload length n:
\* up to 125 the 7-bit field holds n and nothing follows it, from 126 to
\* 65535 the field holds 126 and n follows as 2 big-endian bytes, above
\* 65535 the field holds 127 and n follows as 8 big-endian bytes; the first
\* byte is FIN with the opcode. The masking key (if any) and the n payload
\* bytes follow the header.
C19_LengthClass ==
    WebSocketEncoded =>
        LET hdr == LengthClassHeader(BINARY, IF measured.mask THEN MASK_BIT ELSE 0,
                                     measured.payload_len)
        IN  /\ IsPrefix(hdr, measured.head)
            /\ measured.to_bytes
                 = Len(hdr) + (IF measured.mask THEN 4 ELSE 0) + measured.payload_len

\* the leading bytes of START, n as 2 big-endian bytes, the payload
SimpleEncodingHead(n) ==
    LET whole == <<START, n \div 256, n % 256>> \o PayloadOfLen(Min(n, HeadLen))
    IN  SubSeq(whole, 1, Min(n + 3, HeadLen))

SimpleEncoded == measured.taken /\ codec = "Simple" /\ measured.payload_len <= U16 - 1

\* C20: Simple encode of a payload of n <= 65535 bytes produces exactly n + 4
\* bytes: START, n as 2 big-endian bytes, the payload bytes in order, END.
C20_SimpleEncoding ==
    SimpleEncoded =>
        /\ ~measured.panic
        /\ measured.to_bytes = measured.payload_len + 4
        /\ measured.head
             = (IF measured.payload_len + 4 <= HeadLen
                THEN SimpleEncodingHead(measured.payload_len) \o <<END>>
                ELSE SimpleEncodingHead(measured.payload_len))
        /\ measured.last = END

\* n as 4 big-endian bytes
FourBytes(n) ==
    <<(n \div 16777216) % 256, (n \div 65536) % 256, (n \div 256) % 256, n % 256>>

\* the bytes handed to the Checksum32 decoder: the length of the payload, the
\* payload and the sum of its bytes, one byte of them changed on the way if
\* given.at says so, then the trailing bytes
Checksum32Received ==
    LET sent == FourBytes(Len(given.payload)) \o given.payload
                  \o FourBytes(SumBytes(given.payload))
    IN  (IF given.at > 0 THEN [sent EXCEPT ![given.at] = given.to] ELSE sent)
          \o given.trailing

\* C21: Checksum32 encode produces the payload length as 4 big-endian bytes,
\* the payload, then the sum of the payload bytes as 4 big-endian bytes; and
\* decode accepts a frame only when the checksum received is the sum of the
\* payload bytes received.
C21_Checksum32Layout ==
    (codec = "Checksum32" /\ given.loaded) =>
        /\ result = NoResult => rx_buf = Checksum32Received
        /\ (result.op = "from_bytes" /\ result.kind = "Some") =>
             LET received == Checksum32Received
                 n == BigEndian(SubSeq(received, 1, 4))
             IN  /\ Len(received) >= n + 8
                 /\ BigEndian(SubSeq(received, n + 5, n + 8))
                      = SumBytes(SubSeq(received, 5, n + 4))
                 /\ payload(codec, result.frames[1]) = SubSeq(received, 5, n + 4)

\* an intact Checksum32 frame with a payload was accepted
C21_Witness ==
    /\ codec = "Checksum32"
    /\ result.op = "from_bytes"
    /\ result.kind = "Some"
    /\ Len(given.payload) = MaxPayloadLen
    /\ given.trailing # <<>>
    /\ rx_buf = given.trailing

\* a receive or send call has returned after shutdown was called
CalledAfterShutdown ==
    /\ shut
    /\ pc = "idle"
    /\ result.op \in {"b_recv", "nb_recv", "b_send", "nb_send"}

\* C22: after shutdown every receive or send call returns a fatal error;
\* none returns a frame or success, also when a complete frame was in the
\* receive buffer at shutdown.
C22_FatalAfterShutdown ==
    CalledAfterShutdown => result.kind = "Err"

\* a decoder was handed less than one frame
DecodedShort == result.op = "from_bytes" /\ given.short

\* C23: decode on insufficient data has no effect on the buffer. When the
\* buffer holds fewer bytes than the minimal header, or the header declares
\* more payload than is buffered, decode returns no frame and the buffer is
\* byte for byte what it was.
C23_ShortDecodeKeepsBuffer ==
    DecodedShort => (result.kind = "None" /\ rx_buf = given.buf)

\* a decoder was handed the encoding of one frame followed by trailing bytes
DecodedWhole == result.op = "from_bytes" /\ ~given.short /\ given.at = 0

\* the payload of the frame handed to the decoder
GivenPayload ==
    IF given.boundary = 0 THEN given.payload
    ELSE IF given.masked
    THEN WebSocketPayloadUnmasked([data |-> PayloadOfLen(given.boundary),
                                   masking_key |-> MaskingKey])
    ELSE PayloadOfLen(given.boundary)

\* C24: a successful decode removes exactly one frame from the front. For a
\* buffer that is the encoding of a frame followed by trailing bytes T,
\* decode returns the frame and leaves the buffer equal to T.
C24_DecodeRemovesOneFrame ==
    DecodedWhole =>
        /\ result.kind = "Some"
        /\ rx_buf = given.trailing
        /\ payload(codec, result.frames[1]) = GivenPayload

\* the Simple decoder was handed a frame whose end guard was changed
EndGuardChanged ==
    /\ codec = "Simple"
    /\ result.op = "from_bytes"
    /\ given.at = Len(given.payload) + 4
    /\ given.to # END

\* C25: Simple decode validates the trailer. It returns a frame only if the
\* byte right after the declared payload is the end guard; any other value
\* there yields no frame.
C25_EndGuardValidated ==
    EndGuardChanged => result.kind # "Some"

\* an nb_recv call has returned after the frame with the wrong checksum, and
\* whatever the peer sent since, was read into the buffer
BadSumTaken ==
    /\ codec = "Checksum32"
    /\ given.loaded
    /\ given.at > 4
    /\ pc = "idle"
    /\ result.op = "nb_recv"
    /\ wire = <<>>

C27_DrainThenDecode ==
    [][pc = "nb_recv" =>
         /\ pc' = "nb_recv" =>
              /\ delivered' = delivered
              /\ result' = result
              /\ rx_buf' = rx_buf \/ rx_buf' \o wire' = rx_buf \o wire
         /\ (pc' = "idle" /\ result'.kind \in {"Ok", "WouldBlock"}) =>
              /\ chan' = "wouldblock"
              /\ wire' = wire
              /\ rx_buf' = DecodeAll(codec, rx_buf).buf
              /\ delivered' = delivered \o DecodeAll(codec, rx_buf).frames]_vars

\* an nb_recv call took two frames off the channel in more than one read,
\* then the channel reported no data and the call returned both
C27_Witness ==
    /\ pc = "idle"
    /\ result.op = "nb_recv"
    /\ result.kind = "Ok"
    /\ Len(result.frames) = MaxFrames
    /\ rxAtCall = 0
    /\ chan = "wouldblock"
    /\ wire = <<>>

\* the step is a b_recv call made while the buffer holds a complete frame
BRecvCalledOnCompleteFrame ==
    /\ pc = "idle"
    /\ HoldsCompleteFrame(rx_buf)
    /\ pc' = "b_recv" \/ delivered' # delivered \/ result' # result

\* C28: blocking receive looks at the buffer first. A b_recv call made while
\* the receive buffer holds a complete frame returns that frame, the oldest
\* not yet returned, without a channel read: the call does not enter its
\* read loop and takes no byte off the channel.
C28_BRecvBufferFirst ==
    [][BRecvCalledOnCompleteFrame =>
         /\ pc' = "idle"
         /\ result'.op = "b_recv"
         /\ result'.kind = "Ok"
         /\ wire' = wire
         /\ delivered' = Append(delivered, result'.frames[1])
         /\ payload(codec, result'.frames[1]) = sentFrames[Len(delivered) + 1]
         /\ rx_buf = to_bytes(codec, result'.frames[1]) \o rx_buf']_vars

\* the step is the first retry: the one nb_send call made so far reported
\* would-block, and nb_send is called again with the same frame
NbSendRetried ==
    /\ result.op = "nb_send"
    /\ result.kind = "WouldBlock"
    /\ Len(queued) = 1
    /\ queued' = Append(queued, queued[1])

\* C29: retry after would-block delivers once. When nb_send(F) has reported
\* would-block and nb_send is called again with the same frame F, then,
\* unless the retry ends with a fatal error, the bytes accepted by the
\* channel followed by the bytes retained for a later write are the encoding
\* of F exactly once; a retry that reports success has delivered exactly
\* the encoding of F.
C29_RetryDeliversOnce ==
    [][(NbSendRetried /\ result'.kind # "Err") =>
         /\ accepted' \o tx_buf' = Encode(codec, queued[1])
         /\ result'.kind = "Ok" => accepted' = Encode(codec, queued[1])]_vars

\* C30: Secure and Plain are the same engine. Run side by side on the same
\* codec and the same channel results (chunks of data, no-data signals,
\* counts of accepted bytes), the two streams return the same class of
\* outcome on every call and have equal receive and transmit buffers after
\* every call.
C30_SecureIsPlain ==
    /\ sideBySide.plain.result.kind = sideBySide.secure.result.kind
    /\ sideBySide.plain.result.frames = sideBySide.secure.result.frames
    /\ sideBySide.plain.rx_buf = sideBySide.secure.rx_buf
    /\ sideBySide.plain.tx_buf = sideBySide.secure.tx_buf

\* an nb_send whose write got the no-data signal returned would-block on the
\* Secure stream, after a receive call that left part of a frame buffered
C30_Witness ==
    /\ sideBySide.last = "nodata"
    /\ sideBySide.secure.result.op = "nb_send"
    /\ sideBySide.secure.result.kind = "WouldBlock"
    /\ sideBySide.secure.rx_buf # <<>>
    /\ sideBySide.sends = MaxSends

\* payload() has been called on a decoded WebSocket frame
PayloadTaken ==
    /\ codec = "WebSocket"
    /\ result.op = "from_bytes"
    /\ result.kind = "Some"
    /\ measured.payload # <<>>

\* the payload bytes as they were on the wire of the frame that was loaded
WirePayload == IF given.masked THEN PayloadOfLen(given.boundary) ELSE given.payload

\* the wire payload with byte i (from 0) XORed with byte i mod 4 of the key
Unmasked(d, k) == [i \in 1..Len(d) |-> BitXor(d[i], k[((i - 1) % 4) + 1])]

\* C31: WebSocket unmasking. For a decoded frame with the mask bit set, key
\* K and stored payload bytes D, every call of payload() returns D[i] XOR
\* K[i mod 4]; for a frame without the mask bit it returns D; the stored
\* frame still holds D and K, and to_bytes ends with K followed by D (with D
\* alone for an unmasked frame).
C31_Unmasking ==
    PayloadTaken =>
        LET f == result.frames[1]
            bytes == to_bytes(codec, f)
        IN  /\ f.mask = given.masked
            /\ f.data = WirePayload
            /\ \A c \in 1..Len(measured.payload) :
                 measured.payload[c] =
                    IF given.masked THEN Unmasked(WirePayload, MaskingKey)
                    ELSE WirePayload
            /\ given.masked =>
                 /\ f.masking_key = MaskingKey
                 /\ SubSeq(bytes, Len(bytes) - Len(WirePayload) - 3, Len(bytes))
                      = MaskingKey \o WirePayload
            /\ ~given.masked =>
                 SubSeq(bytes, Len(bytes) - Len(WirePayload) + 1, Len(bytes)) = WirePayload

\* payload() was called MaxPayloadCalls times on a masked frame of more
\* than four bytes
C31_Witness ==
    /\ PayloadTaken
    /\ given.masked
    /\ given.boundary > 4
    /\ Len(measured.payload) = MaxPayloadCalls

\* the payloads the Plain stream returned from its latest receive call
PlainReturned ==
    [i \in 1..Len(oldPlain.plain.result.frames) |->
        SimplePayload(oldPlain.plain.result.frames[i])]

\* C33: the byte-by-byte receive and the accumulate-then-bulk-decode receive
\* are the same algorithm. Fed the same well-formed Simple frames through
\* the same channel reads, both return the same payloads, in the same
\* order, from the same calls.
C33_SameReceive ==
    /\ oldPlain.result.kind = oldPlain.plain.result.kind
    /\ oldPlain.returned = PlainReturned

\* the moves of FrameState the claim allows
FrameStateCycle ==
    {<<"Start", "PayloadLen">>, <<"PayloadLen", "Payload">>, <<"Payload", "End">>,
     <<"End", "Start">>}

\* the bytes of the one frame the peer sent have all been read
OneFrameConsumed == Len(oldPlain.arrived) = 1 /\ oldPlain.wire = <<>>

\* C39: the byte-by-byte framing state machine moves only Start ->
\* PayloadLen -> Payload -> End -> Start, and once the bytes of a well-formed
\* frame with n payload bytes (n = 0 included) have been consumed it is back
\* in Start, has emitted exactly that payload, and its frame buffer never
\* held more than n + 3 bytes.
C39_FramingStateMachine ==
    /\ \A i \in 1..(Len(oldPlain.path) - 1) :
          <<oldPlain.path[i], oldPlain.path[i + 1]>> \in FrameStateCycle
    /\ OneFrameConsumed =>
          /\ oldPlain.state = "Start"
          /\ oldPlain.emitted = oldPlain.arrived
          /\ oldPlain.peak <= Len(oldPlain.arrived[1]) + 3

\* the bytes of the queued buffers, front first
RECURSIVE Flatten(_)
Flatten(q) == IF q = <<>> THEN <<>> ELSE Head(q) \o Flatten(Tail(q))

\* the framed messages passed to send, in call order
RECURSIVE FramedAll(_)
FramedAll(msgs) == IF msgs = <<>> THEN <<>> ELSE FromSlice(Head(msgs)) \o FramedAll(Tail(msgs))

\* C32: the trait-based non-blocking stream keeps what the channel did not
\* take and sends it first. After every call of send, for any queue length,
\* send has not panicked, and the bytes accepted by the channel followed by
\* the bytes left in the queue are the framed messages in the order they
\* were passed to send (on a stream none of whose writes has failed).
C32_QueuedSend ==
    ~oldPlain.failed =>
        /\ oldPlain.result.kind # "Panic"
        /\ oldPlain.accepted \o Flatten(oldPlain.tx_queue) = FramedAll(oldPlain.passed)

\* C34: length-prefixed streams. For every payload length n up to 65535 the
\* two bytes write puts before the payload are the big-endian encoding of
\* n, and calc_payload_len applied to them yields n, so the reader takes
\* exactly the n payload bytes as one message.
C34_LengthPrefix ==
    prefixed.written =>
        /\ prefixed.head = <<prefixed.len \div 256, prefixed.len % 256>>
        /\ prefixed.read => prefixed.payload_len = prefixed.len

\* the bytes the channel accepted in this step
NewlyAccepted == SubSeq(accepted', Len(accepted) + 1, Len(accepted'))

\* C35: wire order across both send surfaces. After every b_send or nb_send
\* call, in any interleaving and with any partial writes, the bytes accepted
\* by the channel are a prefix of the frames' encodings in call order (on a
\* stream none of whose send calls has returned a fatal error); a b_send
\* called while the transmit buffer holds an unsent remainder puts that
\* remainder on the wire before its own frame.
C35_WireOrderBothSends ==
    [][(queued' # queued /\ ~sendFailed') =>
         /\ IsPrefix(accepted', ConcatEnc(queued'))
         /\ (result'.op = "b_send" /\ tx_buf # <<>>) =>
              IsPrefix(NewlyAccepted,
                       tx_buf \o Encode(codec, queued'[Len(queued')]))]_vars

\* the step is the return of an nb_recv call with a fatal error after at
\* least one read of the call had returned data
NbRecvFailsAfterReads ==
    /\ pc = "nb_recv"
    /\ pc' = "idle"
    /\ result'.kind = "Err"
    /\ Len(rx_buf) > rxAtCall

\* C37: a fatal read error in nb_recv loses no received bytes. When nb_recv
\* returns a fatal error after successful reads, the bytes read are in the
\* receive buffer in order behind what was there, no frame was decoded or
\* removed, the transmit buffer is unchanged, and the decode step of the
\* next receive call returns every frame those bytes complete: what it
\* leaves in the buffer holds no complete frame.
C37_ErrorKeepsBytes ==
    [][NbRecvFailsAfterReads =>
         /\ rx_buf' = rx_buf
         /\ delivered' = delivered
         /\ tx_buf' = tx_buf
         /\ BytesOf(delivered') \o rx_buf' \o wire' = ConcatEnc(sentFrames')
         /\ ~HoldsCompleteFrame(DecodeAll(codec, rx_buf').buf)]_vars

\* C38: the decoders are total. For each codec and every buffer content and
\* length, from_bytes returns either a frame or no frame; it never indexes
\* past the end of the buffer, never overflows in its length arithmetic and
\* never aborts.
C38_DecodersTotal ==
    result.op = "from_bytes" => result.kind \in {"Some", "None"}

\* C40: op_type returns the operation type of the frame. For a frame built
\* by new with op type T, and for a frame decoded from a header carrying the
\* op code of T, op_type() equals T, for each of Continuation, Text, Binary,
\* Close, Ping and Pong.
C40_OpType ==
    result.op = "op_type" => result.kind = result.text

\* how often the payload p is among the payloads ps
Occurrences(p, ps) == Cardinality({i \in 1..Len(ps) : ps[i] = p})

\* the payloads the stream and its clone have delivered between them
DeliveredByBoth == PayloadsOf(delivered) \o PayloadsOf(cloned.delivered)

\* no byte is in flight and neither instance is inside a call: every byte
\* read has been through the decode step of the call that read it
BothAtRest == cloned.made /\ wire = <<>> /\ pc = "idle"

\* C36: clones sharing one connection. A stream and its clone that both
\* receive on the connection, in any interleaving of their reads, together
\* deliver every frame the peer sent exactly once and never a frame with
\* bytes of another frame; no interleaving leaves part of a frame in one
\* instance's buffer and the rest in the other's.
C36_ClonesShareConnection ==
    /\ cloned.made =>
         \A i \in 1..Len(DeliveredByBoth) :
            Occurrences(DeliveredByBoth[i], DeliveredByBoth)
              <= Occurrences(DeliveredByBoth[i], sentFrames)
    /\ BothAtRest =>
         /\ Len(DeliveredByBoth) = Len(sentFrames)
         /\ rx_buf = <<>>
         /\ cloned.rx_buf = <<>>

====
